---- MODULE Spec2Model ----
(***************************************************************************)
(* Library management system (masadmasood/lms): event fan-out between the  *)
(* borrow-service, the book-service and the notification-service.          *)
(*                                                                         *)
(* Every asynchronous handler is split at its await points: the database   *)
(* read (findOne / find) and the database write (save / insertMany) are    *)
(* separate steps, so handlers of the same service interleave exactly      *)
(* where the Node.js run-loop lets them.                                   *)
(***************************************************************************)
EXTENDS Integers, Sequences, FiniteSets, Bags, TLC

\* ------------------------------------------------------------------------
\* Bounds of the model
\* ------------------------------------------------------------------------
MaxCopies == 2
MaxProjEvents == 3
MaxProjInFlight == 2
MaxNotifEvents == 2
MaxNotifInFlight == 2
MaxRequests == 3
MaxSubInFlight == 2
MaxClock == 1
MaxBorrowRequests == 3
MaxBorrowInFlight == 2
MaxBookRequests == 2
MaxBookInFlight == 2
MaxStreams == 2
MaxFaultEvents == 2

BookIds == {"b1", "b2"}

Users == {"u1", "u2"}
CategoryIds == {"c1", "c2"}
NoId == "-"

\* what findOne answers for a bookId the collection does not hold
NoBook == [exists |-> FALSE, totalCopies |-> 0, availableCopies |-> 0,
           status |-> "unavailable"]

\* no getTargetedSubscribers call has been made yet
NoCall == [called |-> FALSE, categoryName |-> <<>>, bookId |-> NoId,
           result |-> <<>>]

VARIABLES
  books,          \* book-service: collection 'books', bookId -> document
  projHandlers,   \* book-service: projector callbacks waiting on an await
  projLog,        \* book-service: "availability updated" lines of the projector
  projDelivered,  \* number of messages the book-service subscriber received
  catSubs,        \* notification-service: collection 'category_subscriptions'
  bookSubs,       \* notification-service: collection 'book_subscriptions'
  resolved,       \* the last getTargetedSubscribers call: arguments and result
  notifHandlers,  \* notification-service: BookAdded / BookUpdated callbacks
  notifications,  \* notification-service: collection 'notifications'
  emails,         \* notification-service: email delivery attempts
  eventLog,       \* notification-service: in-memory audit log
  notifDelivered, \* number of messages the notification subscriber received
  subReqs,        \* notification-service: subscribe / unsubscribe requests
                  \* waiting on an await
  responses,      \* notification-service: HTTP responses sent, in order
  subStarted,     \* number of subscribe / unsubscribe requests received
  now,            \* the clock read by new Date()
  borrows,        \* borrow-service: collection 'borrows', in insertion order
  borrowReqs,     \* borrow-service: borrowBook / returnBook requests waiting
                  \* on an await
  borrowResponses,\* borrow-service: HTTP responses sent
  borrowStarted,  \* number of borrowBook / returnBook requests received
  redisClient,    \* borrow-service publisher: redisClient is not null
  isConnected,    \* borrow-service publisher: the isConnected flag
  brokerUp,       \* the message broker is reachable
  brokerMsgs,     \* messages the broker has received, hence all that a
                  \* subscriber of the channel can observe
  bookReqs,       \* book-service: HTTP requests waiting on an await
  bookResponses,  \* book-service: HTTP responses sent
  bookStarted,    \* number of book-service write requests received
  bookPublisher,  \* book-service publisher: publisher is not null
  sseClients,     \* book-service: the registry of live push connections
  sseConns,       \* number of /api/notifications/stream requests received
  sseFrames,      \* frames written to each connection, in order
  sseClosed,      \* connections whose close event has been processed
  rejected,       \* channel callbacks whose promise rejected: the deliveries
                  \* whose failure left the callback
  authUsers,      \* auth-service: collection 'users', _id -> document
  authReqs,       \* auth-service: deleteStudent requests waiting on an await
  authResponses,  \* auth-service: HTTP responses sent
  authStarted,    \* number of deleteStudent requests received
  authPublisher,  \* auth-service publisher: isRedisConnected && redisClient
  committed,      \* the local writes the stores have acknowledged, by
                  \* event type and request
  received,       \* the messages for which a subscriber's channel callback
                  \* has been invoked, by service
  heldSince       \* the users who have held an active subscription to the
                  \* category or the book of the running
                  \* getTargetedSubscribers call ever since it began

bookVars == <<books, projHandlers, projLog, projDelivered>>
subVars == <<catSubs, bookSubs>>
reqVars == <<subReqs, responses, subStarted, now>>
notifVars == <<notifHandlers, notifications, emails, eventLog, notifDelivered>>
publisherVars == <<redisClient, isConnected, brokerUp>>
catalogVars == <<bookReqs, bookResponses, bookStarted, bookPublisher>>
sseVars == <<sseClients, sseConns, sseFrames, sseClosed>>
authVars == <<authUsers, authReqs, authResponses, authStarted,
              authPublisher>>
producerVars == <<borrows, borrowResponses, bookResponses, brokerMsgs>>
borrowVars == <<borrows, borrowReqs, borrowResponses, borrowStarted,
                redisClient, isConnected, brokerUp, brokerMsgs>>

vars == <<books, projHandlers, projLog, projDelivered, catSubs, bookSubs,
          resolved, notifHandlers, notifications, emails, eventLog,
          notifDelivered, subReqs, responses, subStarted, now, borrows,
          borrowReqs, borrowResponses, borrowStarted, redisClient,
          isConnected, brokerUp, brokerMsgs, bookReqs, bookResponses,
          bookStarted, bookPublisher, sseClients, sseConns, sseFrames,
          sseClosed, rejected, authUsers, authReqs, authResponses,
          authStarted, authPublisher, committed, received, heldSince>>

\* a save, insert or delete the store has acknowledged for a request
Acknowledged(op, req) == committed \cup {[op |-> op, req |-> req]}

\* the auth-service before any deleteStudent request
NoUser == [exists |-> FALSE, role |-> "none"]
AuthIdle ==
  /\ authUsers = [u \in {"s1"} |-> NoUser]
  /\ authReqs = EmptyBag
  /\ authResponses = {}
  /\ authStarted = 0
  /\ authPublisher = TRUE
  /\ committed = {}

\* no getTargetedSubscribers call is being followed
NoWatch == [on |-> FALSE, category |-> <<>>, bookId |-> NoId, users |-> {}]

\* the book-service HTTP surface before any request, no stream open
CatalogIdle ==
  /\ bookReqs = EmptyBag
  /\ bookResponses = {}
  /\ bookStarted = 0
  /\ bookPublisher = TRUE
  /\ sseClients = {}
  /\ sseConns = 0
  /\ sseFrames = <<>>
  /\ sseClosed = {}
  /\ rejected = {}

\* the borrow-service before any request, its publisher connected
BorrowIdle ==
  /\ borrows = <<>>
  /\ borrowReqs = EmptyBag
  /\ borrowResponses = {}
  /\ borrowStarted = 0
  /\ redisClient = TRUE
  /\ isConnected = TRUE
  /\ brokerUp = TRUE
  /\ brokerMsgs = {}

\* the notification-service before any message has been received
NotifIdle ==
  /\ received = {}
  /\ heldSince = NoWatch
  /\ subReqs = EmptyBag
  /\ responses = <<>>
  /\ subStarted = 0
  /\ now = 0
  /\ notifHandlers = EmptyBag
  /\ notifications = EmptyBag
  /\ emails = EmptyBag
  /\ eventLog = <<>>
  /\ notifDelivered = 0

\* ------------------------------------------------------------------------
\* notification-service: new RegExp(`^${categoryName}$`, 'i')
\* A name is a sequence of characters; "." and "+" keep the meaning they
\* have in the pattern the name is pasted into.
\* ------------------------------------------------------------------------
Lower(ch) == IF ch = "A" THEN "a" ELSE IF ch = "B" THEN "b" ELSE ch

LowerName(name) == [i \in 1..Len(name) |-> Lower(name[i])]

\* the RegExp constructor throws "Nothing to repeat" on a dangling quantifier
RegexValid(pattern) ==
  \A i \in 1..Len(pattern) :
    pattern[i] = "+" => (i > 1 /\ pattern[i - 1] # "+")

\* one pattern atom against one character, flag 'i'
AtomMatch(atom, ch) == atom = "." \/ Lower(atom) = Lower(ch)

RECURSIVE RegexMatchFrom(_, _, _, _)
RegexMatchFrom(pattern, i, str, j) ==
  IF i > Len(pattern)
  THEN j > Len(str)
  ELSE IF i + 1 <= Len(pattern) /\ pattern[i + 1] = "+"
  THEN \E k \in 1..(Len(str) - j + 1) :
         /\ \A m \in j..(j + k - 1) : AtomMatch(pattern[i], str[m])
         /\ RegexMatchFrom(pattern, i + 2, str, j + k)
  ELSE /\ j <= Len(str)
       /\ AtomMatch(pattern[i], str[j])
       /\ RegexMatchFrom(pattern, i + 1, str, j + 1)

\* { $regex: new RegExp(`^${pattern}$`, 'i') } applied to a stored string
RegexTest(pattern, str) == RegexMatchFrom(pattern, 1, str, 1)

\* ------------------------------------------------------------------------
\* notification-service: models/CategorySubscription.js, BookSubscription.js
\* ------------------------------------------------------------------------
\* the name each category carries in the catalogue and in a subscribe request
CategoryNameOf ==
  [c \in CategoryIds |->
     IF c = "c1" THEN <<"a", "b">> ELSE <<"a", "+">>]

\* category names an event or a caller can carry
QueryNames ==
  { <<"a", "b">>, <<"A", "B">>, <<"a", "+">>, <<"a", ".">>, <<"+", "a">>,
    <<"b">>, <<>> }

\* the _id order in which the rows of a drawn store were inserted
IdOfPair ==
  [p \in Users \X (CategoryIds \cup BookIds) |->
     (IF p[1] = "u1" THEN 0 ELSE 1)
     + 2 * (IF p[2] \in {"c1", "b1"} THEN 1 ELSE 2)]

CategoryRow(id, userId, categoryId, isActive, subscribedAt) ==
  [id |-> id, userId |-> userId, categoryId |-> categoryId,
   categoryName |-> CategoryNameOf[categoryId], isActive |-> isActive,
   subscribedAt |-> subscribedAt]

BookRow(id, userId, bookId, isActive, subscribedAt) ==
  [id |-> id, userId |-> userId, bookId |-> bookId, isActive |-> isActive,
   subscribedAt |-> subscribedAt]

\* the rows of a collection in natural (insertion) order
RECURSIVE RowsInOrder(_)
RowsInOrder(rows) ==
  IF rows = {} THEN <<>>
  ELSE LET first == CHOOSE r \in rows : \A q \in rows : r.id <= q.id
       IN <<first>> \o RowsInOrder(rows \ {first})

\* ------------------------------------------------------------------------
\* notification-service: controllers/subscriptionController.js,
\* getTargetedSubscribers
\* ------------------------------------------------------------------------
\* CategorySubscription.find({categoryName: {$regex}, isActive: true})
FindCategorySubscribers(rows, categoryName) ==
  { r \in rows : r.isActive /\ RegexTest(categoryName, r.categoryName) }

\* a find that also returns the rows of cancelled subscriptions
FindBookRowsAnyState(rows, bookId) == { r \in rows : r.bookId = bookId }

\* BookSubscription.find({bookId, isActive: true})
FindBookSubscribers(rows, bookId) ==
  { r \in rows : r.isActive /\ r.bookId = bookId }

\* the Map is kept as the sequence of its values, in insertion order
MapHas(map, key) == \E i \in 1..Len(map) : map[i].userId = key

\* Map.set: replaces the value of a present key, else appends
MapSet(map, entry) ==
  IF MapHas(map, entry.userId)
  THEN [i \in 1..Len(map) |->
          IF map[i].userId = entry.userId THEN entry ELSE map[i]]
  ELSE Append(map, entry)

\* lines 377-386
RECURSIVE ForEachCategorySubscriber(_, _)
ForEachCategorySubscriber(subs, map) ==
  IF subs = <<>> THEN map
  ELSE ForEachCategorySubscriber(Tail(subs),
         MapSet(map, [userId |-> Head(subs).userId,
                      subscriptionType |-> "category",
                      categoryId |-> Head(subs).categoryId,
                      bookId |-> NoId]))

\* the value of a present key with lines 399-401 applied
MarkBoth(map, sub) ==
  [i \in 1..Len(map) |->
     IF map[i].userId = sub.userId
     THEN [map[i] EXCEPT !.subscriptionType = "both", !.bookId = sub.bookId]
     ELSE map[i]]

\* lines 395-412
RECURSIVE ForEachBookSubscriber(_, _)
ForEachBookSubscriber(subs, map) ==
  IF subs = <<>> THEN map
  ELSE ForEachBookSubscriber(Tail(subs),
         IF MapHas(map, Head(subs).userId)
         THEN MarkBoth(map, Head(subs))
         ELSE MapSet(map, [userId |-> Head(subs).userId,
                           subscriptionType |-> "book",
                           categoryId |-> NoId,
                           bookId |-> Head(subs).bookId]))

\* pass 1 (lines 369-386); the constructor's throw is caught at line 416
CategoryPass(rows, categoryName) ==
  ForEachCategorySubscriber(
    RowsInOrder(FindCategorySubscribers(rows, categoryName)), <<>>)

\* pass 2 (lines 388-415), skipped for a falsy bookId
BookPass(rows, bookId, map) ==
  IF bookId = NoId THEN map
  ELSE ForEachBookSubscriber(RowsInOrder(FindBookSubscribers(rows, bookId)), map)

\* getTargetedSubscribers with both lookups answered from one store state
GetTargetedSubscribers(cats, bks, categoryName, bookId) ==
  IF ~RegexValid(categoryName) THEN <<>>
  ELSE BookPass(bks, bookId, CategoryPass(cats, categoryName))

\* a caller resolves the targets of (categoryName, bookId)
ResolveCall(categoryName, bookId) ==
  /\ resolved' = [called |-> TRUE, categoryName |-> categoryName,
                  bookId |-> bookId,
                  result |-> GetTargetedSubscribers(catSubs, bookSubs,
                                                    categoryName, bookId)]
  /\ UNCHANGED <<rejected, catalogVars, sseVars, heldSince, received, authVars, committed, borrowVars, bookVars, subVars, notifVars, reqVars>>

\* every store the subscribe / unsubscribe endpoints can build over the
\* given users and targets: per (user, target) no row, an active row or an
\* inactive row
PairStates == {"none", "active", "inactive"}

CategoryStores(users, cids) ==
  { { CategoryRow(IdOfPair[<<p[1], p[2]>>], p[1], p[2], f[p] = "active", 0) :
        p \in { q \in users \X cids : f[q] # "none" } } :
      f \in [users \X cids -> PairStates] }

BookStores(users, bids) ==
  { { BookRow(IdOfPair[<<p[1], p[2]>>], p[1], p[2], f[p] = "active", 0) :
        p \in { q \in users \X bids : f[q] # "none" } } :
      f \in [users \X bids -> PairStates] }

InitResolve ==
  /\ AuthIdle
  /\ books = [b \in BookIds |-> NoBook]
  /\ projHandlers = EmptyBag
  /\ projLog = <<>>
  /\ projDelivered = 0
  /\ catSubs \in CategoryStores(Users, CategoryIds)
  /\ bookSubs \in BookStores(Users, BookIds)
  /\ resolved = NoCall
  /\ NotifIdle
  /\ CatalogIdle
  /\ BorrowIdle

NextResolve ==
  \E q \in QueryNames, b \in BookIds \cup {NoId} : ResolveCall(q, b)

SpecResolve == InitResolve /\ [][NextResolve]_vars

\* ------------------------------------------------------------------------
\* notification-service: controllers/subscriptionController.js,
\* subscribeToCategory, unsubscribeFromCategory, subscribeToBook,
\* unsubscribeFromBook (the book handlers repeat the category handlers on
\* the other collection)
\* ------------------------------------------------------------------------
\* user u has an active subscription to the category or to the book in
\* the given collections
Holds(u, cats, bks, category, bookId) ==
  \/ \E r \in cats : /\ r.userId = u
                     /\ r.isActive
                     /\ LowerName(r.categoryName) = LowerName(category)
  \/ \E r \in bks : r.userId = u /\ r.isActive /\ r.bookId = bookId

\* the followed users that still hold one after a write to the collections
StillHeld(w, cats, bks) ==
  [w EXCEPT !.users = { u \in @ : Holds(u, cats, bks, w.category, w.bookId) }]

Collection(kind) == IF kind = "category" THEN catSubs ELSE bookSubs

TargetOf(kind, row) == IF kind = "category" THEN row.categoryId ELSE row.bookId

\* the rows findOne({userId, categoryId}) / findOne({userId, bookId}) can answer
PairRows(kind, userId, target) ==
  { r \in Collection(kind) : r.userId = userId /\ TargetOf(kind, r) = target }

SubRequestRec(op, kind, userId, target) ==
  [op |-> op, kind |-> kind, userId |-> userId, target |-> target,
   pc |-> "findOne", rowId |-> 0, modified |-> FALSE]

StatusCode(result) ==
  IF result = "created" THEN 201
  ELSE IF result \in {"reactivated", "unsubscribed"} THEN 200
  ELSE IF result = "invalid" THEN 400
  ELSE IF result = "notfound" THEN 404
  ELSE IF result = "conflict" THEN 409
  ELSE 500

Response(r, result) ==
  [op |-> r.op, kind |-> r.kind, userId |-> r.userId, target |-> r.target,
   result |-> result, status |-> StatusCode(result), at |-> now]

\* a request arrives; lines 19-26 / 78-85 answer 400 on a missing field,
\* else the handler runs up to its findOne
SubRequest(limit, op, kind, userId, target, valid) ==
  /\ subStarted < MaxRequests
  /\ BagCardinality(subReqs) < limit
  /\ subStarted' = subStarted + 1
  /\ IF valid
     THEN /\ subReqs' = subReqs (+)
               SetToBag({SubRequestRec(op, kind, userId, target)})
          /\ responses' = responses
     ELSE /\ subReqs' = subReqs
          /\ responses' = Append(responses,
               Response(SubRequestRec(op, kind, userId, target), "invalid"))
  /\ UNCHANGED <<rejected, catalogVars, sseVars, heldSince, received, authVars, committed, borrowVars, bookVars, subVars, resolved, notifVars, now>>

\* a subscribe that reactivates whatever row it finds
SubscribeBranchNoConflict(found, isActive) ==
  IF ~found THEN "create" ELSE "reactivate"

\* the branch subscribe takes on what findOne answered (lines 31-48)
SubscribeBranch(found, isActive) ==
  IF ~found THEN "create"
  ELSE IF isActive THEN "conflict"
  ELSE "reactivate"

\* findOne resolves and the handler runs up to its save, or answers
SubFindOne(r) ==
  /\ BagIn(r, subReqs)
  /\ r.pc = "findOne"
  /\ LET rows == PairRows(r.kind, r.userId, r.target)
         rest == subReqs (-) SetToBag({r})
     IN IF rows = {}
        THEN IF r.op = "subscribe"
             THEN /\ SubscribeBranch(FALSE, FALSE) = "create"
                  /\ subReqs' = rest (+) SetToBag({[r EXCEPT !.pc = "insert"]})
                  /\ responses' = responses
             ELSE /\ subReqs' = rest
                  /\ responses' = Append(responses, Response(r, "notfound"))
        ELSE \E row \in rows :
               IF r.op = "subscribe"
               THEN IF SubscribeBranch(TRUE, row.isActive) = "conflict"
                    THEN /\ subReqs' = rest
                         /\ responses' = Append(responses,
                                                Response(r, "conflict"))
                    ELSE /\ subReqs' = rest (+) SetToBag({
                              [r EXCEPT !.pc = "save", !.rowId = row.id,
                                        !.modified = TRUE]})
                         /\ responses' = responses
               ELSE /\ subReqs' = rest (+) SetToBag({
                         [r EXCEPT !.pc = "save", !.rowId = row.id,
                                   !.modified = row.isActive]})
                    /\ responses' = responses
  /\ UNCHANGED <<rejected, catalogVars, sseVars, heldSince, received, authVars, committed, borrowVars, bookVars, subVars, resolved, notifVars, subStarted, now>>

\* a reactivation that leaves subscribedAt as it was
ReactivatedStale(row, time) == [row EXCEPT !.isActive = TRUE]

\* lines 39-41: the stored row after the reactivating save
Reactivated(row, time) ==
  [row EXCEPT !.isActive = TRUE, !.subscribedAt = time]

\* an unsubscribe that deletes the row
UnsubscribedHard(rows, id, modified) == { r \in rows : r.id # id }

\* lines 97-98: the collection after the soft-deleting save, which writes
\* isActive only when the assignment changed it
Unsubscribed(rows, id, modified) ==
  { IF r.id = id /\ modified THEN [r EXCEPT !.isActive = FALSE] ELSE r :
      r \in rows }

SetCollection(kind, rows) ==
  IF kind = "category"
  THEN catSubs' = rows /\ bookSubs' = bookSubs
  ELSE bookSubs' = rows /\ catSubs' = catSubs

\* existing.save() / subscription.save() of a loaded row resolves
SubSave(r) ==
  /\ BagIn(r, subReqs)
  /\ r.pc = "save"
  /\ subReqs' = subReqs (-) SetToBag({r})
  /\ IF r.op = "subscribe"
     THEN /\ SetCollection(r.kind,
               { IF x.id = r.rowId THEN Reactivated(x, now) ELSE x :
                   x \in Collection(r.kind) })
          /\ responses' = Append(responses, Response(r, "reactivated"))
     ELSE /\ SetCollection(r.kind,
               Unsubscribed(Collection(r.kind), r.rowId, r.modified))
          /\ responses' = Append(responses, Response(r, "unsubscribed"))
  /\ heldSince' = StillHeld(heldSince, catSubs', bookSubs')
  /\ UNCHANGED <<rejected, catalogVars, sseVars, received, authVars,
                 committed, borrowVars, bookVars, resolved, notifVars,
                 subStarted, now>>

\* a collection without the unique compound index
UniqueIndexOff(rows, kind, userId, target) == TRUE

\* schema.index({userId: 1, categoryId: 1}, {unique: true}) and its
\* counterpart on {userId, bookId}: whether an insert is accepted
UniqueIndexAllows(rows, kind, userId, target) ==
  ~\E x \in rows : x.userId = userId /\ TargetOf(kind, x) = target

NewRow(kind, id, userId, target) ==
  IF kind = "category"
  THEN CategoryRow(id, userId, target, TRUE, now)
  ELSE BookRow(id, userId, target, TRUE, now)

\* the save() of a new document resolves: inserted, or rejected with a
\* duplicate-key error that the catch turns into a 500
SubInsert(r) ==
  /\ BagIn(r, subReqs)
  /\ r.pc = "insert"
  /\ subReqs' = subReqs (-) SetToBag({r})
  /\ LET rows == Collection(r.kind)
     IN IF UniqueIndexAllows(rows, r.kind, r.userId, r.target)
        THEN /\ SetCollection(r.kind, rows \cup
                  {NewRow(r.kind, Cardinality(rows) + 1, r.userId, r.target)})
             /\ responses' = Append(responses, Response(r, "created"))
        ELSE /\ UNCHANGED subVars
             /\ responses' = Append(responses, Response(r, "error"))
  /\ heldSince' = StillHeld(heldSince, catSubs', bookSubs')
  /\ UNCHANGED <<rejected, catalogVars, sseVars, received, authVars,
                 committed, borrowVars, bookVars, resolved, notifVars,
                 subStarted, now>>

\* time passes
Tick ==
  /\ now < MaxClock
  /\ now' = now + 1
  /\ UNCHANGED <<rejected, catalogVars, sseVars, heldSince, received, authVars, committed, borrowVars, bookVars, subVars, resolved, notifVars, subReqs, responses,
                 subStarted>>

StoreUsers == {"u1", "u2"}
StoreCategoryIds == {"c1"}
StoreBookIds == {"b1"}
SubOps == {"subscribe", "unsubscribe"}

SubRequestAny(limit, validity) ==
  \E op \in SubOps, u \in StoreUsers, valid \in validity :
    \/ \E c \in StoreCategoryIds : SubRequest(limit, op, "category", u, c, valid)
    \/ \E b \in StoreBookIds : SubRequest(limit, op, "book", u, b, valid)

InitStore ==
  /\ AuthIdle
  /\ books = [b \in BookIds |-> NoBook]
  /\ projHandlers = EmptyBag
  /\ projLog = <<>>
  /\ projDelivered = 0
  /\ catSubs = {}
  /\ bookSubs = {}
  /\ resolved = NoCall
  /\ NotifIdle
  /\ CatalogIdle
  /\ BorrowIdle

\* requests interleave at their awaits
NextStore ==
  \/ SubRequestAny(MaxSubInFlight, BOOLEAN)
  \/ \E r \in BagToSet(subReqs) : SubFindOne(r)
  \/ \E r \in BagToSet(subReqs) : SubSave(r)
  \/ \E r \in BagToSet(subReqs) : SubInsert(r)

SpecStore == InitStore /\ [][NextStore]_vars

\* requests with valid input arrive one after the other, each answered
\* before the next
NextSeq ==
  \/ SubRequestAny(1, {TRUE})
  \/ \E r \in BagToSet(subReqs) : SubFindOne(r)
  \/ \E r \in BagToSet(subReqs) : SubSave(r)
  \/ \E r \in BagToSet(subReqs) : SubInsert(r)
  \/ Tick

SpecSeq == InitStore /\ [][NextSeq]_vars

\* ------------------------------------------------------------------------
\* notification-service: services/eventSubscriber.js (processBookAdded,
\* processBookUpdated), services/eventHandlers.js (handleBookAdded,
\* handleBookUpdated), controllers/notificationDbController.js
\* ------------------------------------------------------------------------
\* categories a published BookAdded payload carries (bookController.js:277)
EventCategories == { <<"A", "B">>, <<"b">> }

\* a BookAdded message carries {bookId, title, author, category,
\* coverImageUrl}; a BookUpdated message carries {bookId, title, author}
\* (bookController.js:379-383), so handleBookUpdated resolves data.category
\* || '' = ''
NotifHandler(id, type, category, bookId) ==
  [id |-> id, type |-> type, category |-> category, bookId |-> bookId,
   pc |-> "findCategory", subscribers |-> <<>>, targets |-> <<>>,
   sent |-> 0, emailsSent |-> 0]

\* the subscriber receives a message: the callback runs up to the first
\* find of getTargetedSubscribers
NotifInvoke(type, category, bookId) ==
  /\ notifDelivered < MaxNotifEvents
  /\ BagCardinality(notifHandlers) < MaxNotifInFlight
  /\ notifHandlers' = notifHandlers (+)
       SetToBag({NotifHandler(notifDelivered + 1, type, category, bookId)})
  /\ notifDelivered' = notifDelivered + 1
  /\ UNCHANGED <<rejected, catalogVars, sseVars, authVars, committed,
                 borrowVars, bookVars, subVars, resolved, notifications,
                 emails, eventLog, reqVars>>

\* a BookAdded / BookUpdated message reaches the subscriber
NotifDeliver(type, category, bookId) ==
  /\ NotifInvoke(type, category, bookId)
  /\ UNCHANGED <<received, heldSince>>

\* handleBookUpdated lines 411-413
BookSubscribersOnly(subscribers) ==
  SelectSeq(subscribers,
            LAMBDA e : e.subscriptionType = "book" \/ e.subscriptionType = "both")

LogEntry(h, notified) ==
  [event |-> h.id, eventType |-> h.type,
   data |-> [category |-> h.category, bookId |-> h.bookId],
   subscribersNotified |-> notified, emailsSent |-> h.emailsSent]

\* getTargetedSubscribers has returned: eventHandlers.js lines 294-310 and
\* 411-421
AfterResolve(h, subscribers) ==
  LET targets == IF h.type = "BOOK_ADDED" THEN subscribers
                 ELSE BookSubscribersOnly(subscribers)
      rest == notifHandlers (-) SetToBag({h})
  IN IF targets = <<>>
     THEN /\ notifHandlers' = rest
          /\ eventLog' = IF h.type = "BOOK_ADDED"
                          THEN Append(eventLog, LogEntry(h, 0))
                          ELSE eventLog
     ELSE /\ notifHandlers' = rest (+) SetToBag({
               [h EXCEPT !.pc = "insertMany", !.subscribers = subscribers,
                         !.targets = targets]})
          /\ eventLog' = eventLog

\* the category find resolves (subscriptionController lines 372-386)
NotifFindCategory(h) ==
  /\ BagIn(h, notifHandlers)
  /\ h.pc = "findCategory"
  /\ IF ~RegexValid(h.category)
     THEN AfterResolve(h, <<>>)
     ELSE IF h.bookId = NoId
     THEN AfterResolve(h, CategoryPass(catSubs, h.category))
     ELSE /\ notifHandlers' = (notifHandlers (-) SetToBag({h})) (+) SetToBag({
               [h EXCEPT !.pc = "findBook",
                         !.subscribers = CategoryPass(catSubs, h.category)]})
          /\ eventLog' = eventLog
  /\ UNCHANGED <<rejected, catalogVars, sseVars, heldSince, received, authVars, committed, borrowVars, bookVars, subVars, resolved, notifications, emails,
                 notifDelivered, reqVars>>

\* the book find resolves (subscriptionController lines 390-415)
NotifFindBook(h) ==
  /\ BagIn(h, notifHandlers)
  /\ h.pc = "findBook"
  /\ AfterResolve(h, BookPass(bookSubs, h.bookId, h.subscribers))
  /\ UNCHANGED <<rejected, catalogVars, sseVars, heldSince, received, authVars, committed, borrowVars, bookVars, subVars, resolved, notifications, emails,
                 notifDelivered, reqVars>>

\* a batch that holds a document for the first subscriber only
BatchNotificationsFirst(event, type, targets) ==
  IF targets = <<>> THEN <<>>
  ELSE <<[event |-> event, userId |-> targets[1].userId, type |-> type]>>

\* createBatchNotifications lines 268-281: one document per subscriber
BatchNotifications(event, type, targets) ==
  [i \in 1..Len(targets) |->
     [event |-> event, userId |-> targets[i].userId, type |-> type]]

RECURSIVE SeqToBag(_)
SeqToBag(seq) ==
  IF seq = <<>> THEN EmptyBag
  ELSE SetToBag({Head(seq)}) (+) SeqToBag(Tail(seq))

\* an insert that skips the users who already hold a row of that type
InsertManyOnce(stored, batch) ==
  stored (+) SeqToBag(SelectSeq(batch,
    LAMBDA d : \A n \in BagToSet(stored) :
                 n.userId # d.userId \/ n.type # d.type))

\* Notification.insertMany(notifications): every document is stored
InsertMany(stored, batch) == stored (+) SeqToBag(batch)

\* Notification.insertMany resolves (createBatchNotifications line 283)
NotifInsertMany(h) ==
  /\ BagIn(h, notifHandlers)
  /\ h.pc = "insertMany"
  /\ notifications' = InsertMany(notifications,
                                 BatchNotifications(h.id, h.type, h.targets))
  /\ IF h.type = "BOOK_ADDED"
     THEN /\ notifHandlers' = (notifHandlers (-) SetToBag({h})) (+)
               SetToBag({[h EXCEPT !.pc = "email"]})
          /\ eventLog' = eventLog
     ELSE /\ notifHandlers' = notifHandlers (-) SetToBag({h})
          /\ eventLog' = Append(eventLog, LogEntry(h, Len(h.targets)))
  /\ UNCHANGED <<rejected, catalogVars, sseVars, heldSince, received, authVars, committed, borrowVars, bookVars, subVars, resolved, emails, notifDelivered, reqVars>>

\* a loop that stops at the first send that returned false
EmailLoopAborts(sent, n, ok) == ~ok \/ sent = n

\* the for..of loop of lines 331-348 ends after the last subscriber
EmailLoopDone(sent, n, ok) == sent = n

\* one sendNewBookNotificationEmail resolves with true or false
\* (handleBookAdded lines 331-348, then 355-368 after the last one)
NotifEmail(h, ok) ==
  /\ BagIn(h, notifHandlers)
  /\ h.pc = "email"
  /\ LET to == h.subscribers[h.sent + 1]
         next == [h EXCEPT !.sent = @ + 1,
                           !.emailsSent = IF ok THEN @ + 1 ELSE @]
         rest == notifHandlers (-) SetToBag({h})
     IN /\ emails' = emails (+)
             SetToBag({[event |-> h.id, userId |-> to.userId, ok |-> ok]})
        /\ IF EmailLoopDone(next.sent, Len(h.subscribers), ok)
           THEN /\ notifHandlers' = rest
                /\ eventLog' = Append(eventLog,
                                      LogEntry(next, Len(h.subscribers)))
           ELSE /\ notifHandlers' = rest (+) SetToBag({next})
                /\ eventLog' = eventLog
  /\ UNCHANGED <<rejected, catalogVars, sseVars, heldSince, received, authVars, committed, borrowVars, bookVars, subVars, resolved, notifications, notifDelivered,
                 reqVars>>

NotifCategoryIds == {"c1"}
NotifBookIds == {"b1"}

InitNotif ==
  /\ AuthIdle
  /\ books = [b \in BookIds |-> NoBook]
  /\ projHandlers = EmptyBag
  /\ projLog = <<>>
  /\ projDelivered = 0
  /\ catSubs \in CategoryStores(Users, NotifCategoryIds)
  /\ bookSubs \in BookStores(Users, NotifBookIds)
  /\ resolved = NoCall
  /\ NotifIdle
  /\ CatalogIdle
  /\ BorrowIdle

NextNotif ==
  \/ \E c \in EventCategories, b \in BookIds :
       NotifDeliver("BOOK_ADDED", c, b)
  \/ \E b \in BookIds : NotifDeliver("BOOK_UPDATED", <<>>, b)
  \/ \E h \in BagToSet(notifHandlers) : NotifFindCategory(h)
  \/ \E h \in BagToSet(notifHandlers) : NotifFindBook(h)
  \/ \E h \in BagToSet(notifHandlers) : NotifInsertMany(h)
  \/ \E h \in BagToSet(notifHandlers), ok \in BOOLEAN : NotifEmail(h, ok)

SpecNotif == InitNotif /\ [][NextNotif]_vars

\* ------------------------------------------------------------------------
\* book-service: models/Book.js
\* ------------------------------------------------------------------------
StatusOf(availableCopies) ==
  IF availableCopies > 0 THEN "available" ELSE "unavailable"

\* documents of the collection whose counters are consistent
BookDocs ==
  { d \in [exists : {TRUE}, totalCopies : 1..MaxCopies,
           availableCopies : 0..MaxCopies,
           status : {"available", "unavailable"}] :
      /\ d.availableCopies <= d.totalCopies
      /\ d.status = StatusOf(d.availableCopies) }

\* schema validation run by save(): availableCopies has min: 0
BookValid(availableCopies) == availableCopies >= 0

\* ------------------------------------------------------------------------
\* book-service: services/eventSubscriber.js (availability projector)
\* ------------------------------------------------------------------------
NoDoc == [availableCopies |-> 0, status |-> "unavailable"]

ProjHandler(kind, bookId) ==
  [kind |-> kind, bookId |-> bookId, pc |-> "findOne",
   loaded |-> NoBook, doc |-> NoDoc]

\* handleBookBorrowed after findOne: the in-memory document after lines 54-59
BorrowedDoc(book) ==
  LET a == book.availableCopies - 1
  IN [availableCopies |-> a,
      status |-> IF a = 0 THEN "unavailable" ELSE book.status]

\* the increment without the guard of line 85
ReturnedDocUncapped(book) ==
  LET a == book.availableCopies + 1
  IN [availableCopies |-> a,
      status |-> IF a > 0 THEN "available" ELSE book.status]

\* handleBookReturned after findOne: the in-memory document after lines 85-92
ReturnedDoc(book) ==
  LET a == IF book.availableCopies < book.totalCopies
           THEN book.availableCopies + 1
           ELSE book.availableCopies
  IN [availableCopies |-> a,
      status |-> IF a > 0 THEN "available" ELSE book.status]

\* a save that applies the handler's change as an atomic increment
SaveBookAtomic(stored, loaded, doc) ==
  IF ~stored.exists \/ ~BookValid(doc.availableCopies)
  THEN stored
  ELSE LET a == stored.availableCopies
                  + (doc.availableCopies - loaded.availableCopies)
       IN [stored EXCEPT !.availableCopies = a, !.status = StatusOf(a)]

\* book.save(): an update that $sets only the paths the handler modified
SaveBook(stored, loaded, doc) ==
  IF ~stored.exists \/ ~BookValid(doc.availableCopies)
  THEN stored
  ELSE [stored EXCEPT
          !.availableCopies = IF doc.availableCopies # loaded.availableCopies
                              THEN doc.availableCopies ELSE @,
          !.status = IF doc.status # loaded.status THEN doc.status ELSE @]

\* the subscriber receives a message: the callback runs up to its findOne
ProjInvoke(kind, bookId) ==
  /\ projDelivered < MaxProjEvents
  /\ BagCardinality(projHandlers) < MaxProjInFlight
  /\ projHandlers' = projHandlers (+) SetToBag({ProjHandler(kind, bookId)})
  /\ projDelivered' = projDelivered + 1
  /\ UNCHANGED <<rejected, catalogVars, sseVars, heldSince, authVars, committed,
                 borrowVars, books, projLog, subVars, resolved, notifVars,
                 reqVars>>

\* a BookBorrowed / BookReturned message reaches the subscriber
ProjDeliver(kind, bookId) ==
  /\ ProjInvoke(kind, bookId)
  /\ UNCHANGED received

\* findOne resolves: early returns of lines 43-51, else the modification
ProjLoad(h) ==
  /\ BagIn(h, projHandlers)
  /\ h.pc = "findOne"
  /\ LET book == books[h.bookId]
         rest == projHandlers (-) SetToBag({h})
     IN IF ~book.exists
        THEN projHandlers' = rest
        ELSE IF h.kind = "BookBorrowed" /\ book.availableCopies <= 0
        THEN projHandlers' = rest
        ELSE projHandlers' = rest (+) SetToBag({
               [h EXCEPT !.pc = "save",
                         !.loaded = book,
                         !.doc = IF h.kind = "BookBorrowed"
                                 THEN BorrowedDoc(book)
                                 ELSE ReturnedDoc(book)]})
  /\ UNCHANGED <<rejected, catalogVars, sseVars, heldSince, received, authVars, committed, borrowVars, books, projLog, projDelivered, subVars, resolved, notifVars,
                 reqVars>>

\* save resolves: the write reaches the collection, then the log line
ProjSave(h) ==
  /\ BagIn(h, projHandlers)
  /\ h.pc = "save"
  /\ books' = [books EXCEPT ![h.bookId] = SaveBook(@, h.loaded, h.doc)]
  /\ projHandlers' = projHandlers (-) SetToBag({h})
  /\ projLog' = IF books[h.bookId].exists /\ BookValid(h.doc.availableCopies)
                THEN Append(projLog, <<h.kind, h.bookId, h.doc.availableCopies>>)
                ELSE projLog
  /\ UNCHANGED <<rejected, catalogVars, sseVars, heldSince, received, authVars, committed, borrowVars, projDelivered, subVars, resolved, notifVars, reqVars>>

ProjKinds == {"BookBorrowed", "BookReturned"}

InitProj ==
  /\ AuthIdle
  /\ books \in [BookIds -> {NoBook} \cup BookDocs]
  /\ projHandlers = EmptyBag
  /\ projLog = <<>>
  /\ projDelivered = 0
  /\ catSubs = {}
  /\ bookSubs = {}
  /\ resolved = NoCall
  /\ NotifIdle
  /\ CatalogIdle
  /\ BorrowIdle

NextProj ==
  \/ \E k \in ProjKinds, b \in BookIds : ProjDeliver(k, b)
  \/ \E h \in BagToSet(projHandlers) : ProjLoad(h)
  \/ \E h \in BagToSet(projHandlers) : ProjSave(h)

SpecProj == InitProj /\ [][NextProj]_vars

\* ------------------------------------------------------------------------
\* book-service: controllers/bookController.js, services/eventPublisher.js
\* and the live push registry of app.js
\* ------------------------------------------------------------------------
CatalogBookIds == {"b1"}

\* req.body.totalCopies: absent, or a number
NoUpdate == -2
TotalInputs == {NoUpdate} \cup (-1..MaxCopies)
Truthy(total) == total # NoUpdate /\ total # 0

BookOps == {"addBook", "updateBook", "decrease", "increase"}

BookReq(req, op, bookId, total, pc, doc) ==
  [req |-> req, op |-> op, bookId |-> bookId, total |-> total, pc |-> pc,
   loaded |-> NoBook, doc |-> doc]

BookResponse(h, code) ==
  [req |-> h.req, op |-> h.op, bookId |-> h.bookId, code |-> code]

BookAnswer(h, code) ==
  /\ bookResponses' = bookResponses \cup {BookResponse(h, code)}
  /\ bookReqs' = bookReqs (-) SetToBag({h})

BookGoto(h, next) ==
  /\ bookReqs' = (bookReqs (-) SetToBag({h})) (+) SetToBag({next})
  /\ UNCHANGED bookResponses

\* new Book({..., totalCopies, availableCopies: totalCopies,
\*            status: "available"})
NewBook(total) ==
  [exists |-> TRUE, totalCopies |-> total, availableCopies |-> total,
   status |-> "available"]

\* the bookId addBook generates is one no document and no request holds
FreshBookId(b) ==
  /\ ~books[b].exists
  /\ \A h \in BagToSet(bookReqs) : h.op = "addBook" => h.bookId # b

\* a request arrives and runs up to its first await: addBook validates and
\* builds the document, the others issue Book.findOne
BookRequest(op, bookId, total) ==
  /\ bookStarted < MaxBookRequests
  /\ BagCardinality(bookReqs) < MaxBookInFlight
  /\ op = "addBook" => FreshBookId(bookId)
  /\ op \in {"decrease", "increase", "deleteBook"} => total = NoUpdate
  /\ bookStarted' = bookStarted + 1
  /\ LET req == bookStarted + 1
     IN IF op = "addBook"
        THEN IF ~Truthy(total)
             THEN /\ bookResponses' = bookResponses \cup
                       {BookResponse(BookReq(req, op, bookId, total, "save",
                                             NoBook), 400)}
                  /\ UNCHANGED bookReqs
             ELSE /\ bookReqs' = bookReqs (+) SetToBag({
                       BookReq(req, op, bookId, total, "save",
                               NewBook(total))})
                  /\ UNCHANGED bookResponses
        ELSE /\ bookReqs' = bookReqs (+) SetToBag({
                  BookReq(req, op, bookId, total, "findOne", NoBook)})
             /\ UNCHANGED bookResponses
  /\ UNCHANGED <<rejected, bookPublisher, sseVars, heldSince, received, authVars, committed, borrowVars>>
  /\ UNCHANGED <<bookVars, subVars, resolved, notifVars, reqVars>>

\* decreaseAvailableCopies, lines 150-153
DecreasedDoc(book) ==
  LET a == book.availableCopies - 1
  IN [book EXCEPT !.availableCopies = a,
                  !.status = IF a = 0 THEN "unavailable" ELSE @]

\* increaseAvailableCopies, lines 204-207
IncreasedDoc(book) ==
  LET a == book.availableCopies + 1
  IN [book EXCEPT !.availableCopies = a,
                  !.status = IF a > 0 THEN "available" ELSE @]

\* updateBook, lines 361-374: the fields are assigned first, then
\* updates.totalCopies is compared with book.totalCopies
UpdatedDoc(book, total) ==
  LET assigned == IF total # NoUpdate
                  THEN [book EXCEPT !.totalCopies = total] ELSE book
      grown == IF Truthy(total) /\ total > assigned.totalCopies
               THEN [assigned EXCEPT
                       !.availableCopies = @ + (total - assigned.totalCopies)]
               ELSE assigned
  IN [grown EXCEPT !.status = StatusOf(grown.availableCopies)]

\* Book.findOne resolves: 404, the 400 of decrease / increase / deleteBook,
\* else the change is made on the loaded document
BookFindOne(h) ==
  /\ BagIn(h, bookReqs)
  /\ h.pc = "findOne"
  /\ LET book == books[h.bookId]
     IN IF ~book.exists
        THEN BookAnswer(h, 404)
        ELSE IF h.op = "decrease" /\ book.availableCopies <= 0
        THEN BookAnswer(h, 400)
        ELSE IF h.op = "increase" /\ book.availableCopies >= book.totalCopies
        THEN BookAnswer(h, 400)
        ELSE IF h.op = "deleteBook" /\ book.availableCopies < book.totalCopies
        THEN BookAnswer(h, 400)
        ELSE BookGoto(h, [h EXCEPT
               !.pc = "save",
               !.loaded = book,
               !.doc = IF h.op = "decrease" THEN DecreasedDoc(book)
                       ELSE IF h.op = "increase" THEN IncreasedDoc(book)
                       ELSE IF h.op = "deleteBook" THEN NoBook
                       ELSE UpdatedDoc(book, h.total)])
  /\ UNCHANGED <<rejected, bookStarted, bookPublisher, sseVars, heldSince, received, authVars, committed, borrowVars>>
  /\ UNCHANGED <<bookVars, subVars, resolved, notifVars, reqVars>>

\* schema validation run by save(): totalCopies and availableCopies have
\* min: 0
DocValid(doc) == doc.totalCopies >= 0 /\ doc.availableCopies >= 0

\* book.save() of a loaded document: an update that $sets the paths the
\* handler modified
SavePaths(stored, loaded, doc) ==
  [stored EXCEPT
     !.totalCopies = IF doc.totalCopies # loaded.totalCopies
                     THEN doc.totalCopies ELSE @,
     !.availableCopies = IF doc.availableCopies # loaded.availableCopies
                         THEN doc.availableCopies ELSE @,
     !.status = IF doc.status # loaded.status THEN doc.status ELSE @]

\* save (Book.deleteOne for deleteBook) resolves or throws: a validation
\* error is answered 500; decrease and increase answer 200, addBook,
\* updateBook and deleteBook go on to publish
BookSave(h) ==
  /\ BagIn(h, bookReqs)
  /\ h.pc = "save"
  /\ IF h.op # "deleteBook" /\ ~DocValid(h.doc)
     THEN /\ BookAnswer(h, 500)
          /\ UNCHANGED <<books, committed>>
     ELSE /\ books' = [books EXCEPT ![h.bookId] =
                         IF h.op = "addBook" THEN h.doc
                         ELSE IF h.op = "deleteBook" THEN NoBook
                         ELSE SavePaths(@, h.loaded, h.doc)]
          /\ committed' = Acknowledged(h.op, h.req)
          /\ IF h.op \in {"decrease", "increase"}
             THEN BookAnswer(h, 200)
             ELSE BookGoto(h, [h EXCEPT !.pc = "publish"])
  /\ UNCHANGED <<projHandlers, projLog, projDelivered>>
  /\ UNCHANGED <<rejected, bookStarted, bookPublisher, sseVars, heldSince, received, authVars,
                 borrowVars>>
  /\ UNCHANGED <<subVars, resolved, notifVars, reqVars>>

\* publishBookAdded / publishBookUpdated: nothing without a publisher,
\* publisher.publish, then the broadcast; a throwing publish is caught
\* a publisher whose publish always lands
BookPublishResultAlways(publisher, up) == "sent"

BookPublishResult(publisher, up) ==
  IF ~publisher THEN "skipped" ELSE IF up THEN "sent" ELSE "failed"

BookEventType(op) ==
  IF op = "addBook" THEN "BookAdded"
  ELSE IF op = "deleteBook" THEN "BookDeleted" ELSE "BookUpdated"

\* a broadcast that writes to every connection ever opened
BroadcastAll(frames, clients, frame) ==
  [c \in DOMAIN frames |-> Append(frames[c], frame)]

\* broadcastNotification: client.write(message) for each client of the set
Broadcast(frames, clients, frame) ==
  [c \in DOMAIN frames |->
     IF c \in clients THEN Append(frames[c], frame) ELSE frames[c]]

\* the publish call of addBook / updateBook, then the answer
BookPublish(h) ==
  /\ BagIn(h, bookReqs)
  /\ h.pc = "publish"
  /\ LET result == BookPublishResult(bookPublisher, brokerUp)
         type == BookEventType(h.op)
     IN /\ brokerMsgs' =
             IF result = "sent"
             THEN brokerMsgs \cup {[type |-> type, req |-> h.req,
                                    borrowId |-> 0, bookId |-> h.bookId,
                                    seq |-> Cardinality(brokerMsgs) + 1]}
             ELSE brokerMsgs
        /\ sseFrames' =
             IF result = "sent"
             THEN Broadcast(sseFrames, sseClients,
                            [type |-> type, req |-> h.req])
             ELSE sseFrames
  /\ BookAnswer(h, IF h.op = "addBook" THEN 201 ELSE 200)
  /\ UNCHANGED <<rejected, heldSince, received, authVars, committed, bookStarted, bookPublisher, sseClients, sseConns, sseClosed>>
  /\ UNCHANGED <<borrows, borrowReqs, borrowResponses, borrowStarted,
                 redisClient, isConnected, brokerUp>>
  /\ UNCHANGED <<bookVars, subVars, resolved, notifVars, reqVars>>

\* GET /api/notifications/stream: the "connected" frame, sseClients.add(res)
SseConnect ==
  /\ sseConns < MaxStreams
  /\ sseConns' = sseConns + 1
  /\ sseFrames' = Append(sseFrames, <<[type |-> "connected", req |-> 0]>>)
  /\ sseClients' = sseClients \cup {sseConns + 1}
  /\ UNCHANGED <<rejected, heldSince, received, authVars, committed, sseClosed, catalogVars, borrowVars>>
  /\ UNCHANGED <<bookVars, subVars, resolved, notifVars, reqVars>>

\* req.on("close"): sseClients.delete(res)
SseClose(c) ==
  /\ c \in 1..sseConns
  /\ c \notin sseClosed
  /\ sseClients' = sseClients \ {c}
  /\ sseClosed' = sseClosed \cup {c}
  /\ UNCHANGED <<rejected, heldSince, received, authVars, committed, sseConns, sseFrames, catalogVars, borrowVars>>
  /\ UNCHANGED <<bookVars, subVars, resolved, notifVars, reqVars>>

\* ------------------------------------------------------------------------
\* borrow-service: borrowBook, returnBook and the event publisher
\* ------------------------------------------------------------------------
BorrowUsers == {"u1", "u2"}
BorrowBookIds == {"b1"}
ReturnIds == {1, 2}

BorrowReq(req, op, userId, bookId, borrowId, pc) ==
  [req |-> req, op |-> op, userId |-> userId, bookId |-> bookId,
   borrowId |-> borrowId, pc |-> pc, published |-> "none",
   brokerAtPublish |-> TRUE]

\* res.status(code).json(...): publishStep tells whether the request got as
\* far as the publish call, brokerAtPublish whether the broker was reachable
\* when it did
BorrowResponse(h, code, publishStep) ==
  [req |-> h.req, op |-> h.op, code |-> code, userId |-> h.userId,
   bookId |-> h.bookId, borrowId |-> h.borrowId,
   publishStep |-> publishStep, brokerAtPublish |-> h.brokerAtPublish]

BorrowAnswer(h, code) ==
  /\ borrowResponses' = borrowResponses \cup {BorrowResponse(h, code, FALSE)}
  /\ borrowReqs' = borrowReqs (-) SetToBag({h})

BorrowGoto(h, next) ==
  /\ borrowReqs' = (borrowReqs (-) SetToBag({h})) (+) SetToBag({next})
  /\ UNCHANGED borrowResponses

\* borrowBook up to Borrow.findOne: the input validation, then verifyEmail
\* resolves or throws
BorrowRequest(userId, bookId, valid, emailOk) ==
  /\ borrowStarted < MaxBorrowRequests
  /\ BagCardinality(borrowReqs) < MaxBorrowInFlight
  /\ borrowStarted' = borrowStarted + 1
  /\ LET h == BorrowReq(borrowStarted + 1, "borrow", userId, bookId, 0,
                        "findOne")
     IN IF ~valid \/ ~emailOk
        THEN /\ borrowResponses' =
                  borrowResponses \cup {BorrowResponse(h, 400, FALSE)}
             /\ UNCHANGED borrowReqs
        ELSE /\ borrowReqs' = borrowReqs (+) SetToBag({h})
             /\ UNCHANGED borrowResponses
  /\ UNCHANGED <<borrows, publisherVars, brokerMsgs>>
  /\ UNCHANGED <<bookVars, subVars, resolved, notifVars, reqVars>>
  /\ UNCHANGED <<rejected, catalogVars, sseVars, heldSince, received, authVars, committed>>

\* Borrow.findOne({ userId, bookId, status: "BORROWED" })
ExistingBorrow(rows, userId, bookId) ==
  \E i \in 1..Len(rows) : /\ rows[i].userId = userId
                          /\ rows[i].bookId = bookId
                          /\ rows[i].status = "BORROWED"

BorrowFindOne(h) ==
  /\ BagIn(h, borrowReqs)
  /\ h.op = "borrow"
  /\ h.pc = "findOne"
  /\ IF ExistingBorrow(borrows, h.userId, h.bookId)
     THEN BorrowAnswer(h, 400)
     ELSE BorrowGoto(h, [h EXCEPT !.pc = "save"])
  /\ UNCHANGED <<borrows, borrowStarted, publisherVars, brokerMsgs>>
  /\ UNCHANGED <<bookVars, subVars, resolved, notifVars, reqVars>>
  /\ UNCHANGED <<rejected, catalogVars, sseVars, heldSince, received, authVars, committed>>

\* new Borrow({...}) and borrow.save()
BorrowSave(h) ==
  /\ BagIn(h, borrowReqs)
  /\ h.op = "borrow"
  /\ h.pc = "save"
  /\ borrows' = Append(borrows, [userId |-> h.userId, bookId |-> h.bookId,
                                 status |-> "BORROWED"])
  /\ BorrowGoto(h, [h EXCEPT !.pc = "publish", !.borrowId = Len(borrows) + 1])
  /\ committed' = Acknowledged(h.op, h.req)
  /\ UNCHANGED <<borrowStarted, publisherVars, brokerMsgs>>
  /\ UNCHANGED <<bookVars, subVars, resolved, notifVars, reqVars>>
  /\ UNCHANGED <<rejected, catalogVars, sseVars, heldSince, received, authVars>>

\* returnBook up to its first await
ReturnRequest(borrowId) ==
  /\ borrowStarted < MaxBorrowRequests
  /\ BagCardinality(borrowReqs) < MaxBorrowInFlight
  /\ borrowStarted' = borrowStarted + 1
  /\ borrowReqs' = borrowReqs (+) SetToBag({
       BorrowReq(borrowStarted + 1, "return", NoId, NoId, borrowId,
                 "findById")})
  /\ UNCHANGED <<borrows, borrowResponses, publisherVars, brokerMsgs>>
  /\ UNCHANGED <<bookVars, subVars, resolved, notifVars, reqVars>>
  /\ UNCHANGED <<rejected, catalogVars, sseVars, heldSince, received, authVars, committed>>

\* Borrow.findById: 404, 400 when already RETURNED, else the change is made
\* on the loaded document
ReturnFindById(h) ==
  /\ BagIn(h, borrowReqs)
  /\ h.pc = "findById"
  /\ IF h.borrowId \notin 1..Len(borrows)
     THEN BorrowAnswer(h, 404)
     ELSE IF borrows[h.borrowId].status = "RETURNED"
     THEN BorrowAnswer(h, 400)
     ELSE BorrowGoto(h, [h EXCEPT !.pc = "save",
                                  !.userId = borrows[h.borrowId].userId,
                                  !.bookId = borrows[h.borrowId].bookId])
  /\ UNCHANGED <<borrows, borrowStarted, publisherVars, brokerMsgs>>
  /\ UNCHANGED <<bookVars, subVars, resolved, notifVars, reqVars>>
  /\ UNCHANGED <<rejected, catalogVars, sseVars, heldSince, received, authVars, committed>>

\* borrow.status = "RETURNED"; borrow.save()
ReturnSave(h) ==
  /\ BagIn(h, borrowReqs)
  /\ h.op = "return"
  /\ h.pc = "save"
  /\ borrows' = [borrows EXCEPT ![h.borrowId].status = "RETURNED"]
  /\ BorrowGoto(h, [h EXCEPT !.pc = "publish"])
  /\ committed' = Acknowledged(h.op, h.req)
  /\ UNCHANGED <<borrowStarted, publisherVars, brokerMsgs>>
  /\ UNCHANGED <<bookVars, subVars, resolved, notifVars, reqVars>>
  /\ UNCHANGED <<rejected, catalogVars, sseVars, heldSince, received, authVars>>

\* a publisher whose failed publish is not caught
PublishResultUncaught(client, connected, up) ==
  IF ~connected \/ ~client THEN "skipped"
  ELSE IF up THEN "sent" ELSE "thrown"

\* publishBookBorrowed / publishBookReturned: false without a connection,
\* true after redisClient.publish, false when it throws
PublishResult(client, connected, up) ==
  IF ~connected \/ ~client THEN "skipped"
  ELSE IF up THEN "sent" ELSE "failed"

EventType(op) == IF op = "borrow" THEN "BookBorrowed" ELSE "BookReturned"

\* res.status(...) after the publish call: 201 / 200, or the controller's
\* catch when the call threw
AnswerAfterPublish(op, result) ==
  IF result = "thrown" THEN 500 ELSE IF op = "borrow" THEN 201 ELSE 200

\* borrowBook after borrow.save() (getBook for the title, a failure of which
\* is caught and only logged) and returnBook after borrow.save(): the
\* publish call, then the answer
BorrowPublish(h) ==
  /\ BagIn(h, borrowReqs)
  /\ h.pc = "publish"
  /\ LET result == PublishResult(redisClient, isConnected, brokerUp)
         done == [h EXCEPT !.published = result, !.brokerAtPublish = brokerUp]
     IN /\ brokerMsgs' =
             IF result = "sent"
             THEN brokerMsgs \cup {[type |-> EventType(h.op), req |-> h.req,
                                    borrowId |-> h.borrowId,
                                    bookId |-> h.bookId,
                                    seq |-> Cardinality(brokerMsgs) + 1]}
             ELSE brokerMsgs
        /\ borrowResponses' = borrowResponses \cup
             {BorrowResponse(done, AnswerAfterPublish(h.op, result), TRUE)}
        /\ borrowReqs' = borrowReqs (-) SetToBag({h})
  /\ UNCHANGED <<borrows, borrowStarted, publisherVars>>
  /\ UNCHANGED <<bookVars, subVars, resolved, notifVars, reqVars>>
  /\ UNCHANGED <<rejected, catalogVars, sseVars, heldSince, received, authVars, committed>>

\* the broker goes away or comes back
BrokerFail ==
  /\ brokerUp
  /\ brokerUp' = FALSE
  /\ UNCHANGED <<borrows, borrowReqs, borrowResponses, borrowStarted,
                 redisClient, isConnected, brokerMsgs>>
  /\ UNCHANGED <<bookVars, subVars, resolved, notifVars, reqVars>>
  /\ UNCHANGED <<rejected, catalogVars, sseVars, heldSince, received, authVars, committed>>

BrokerRecover ==
  /\ ~brokerUp
  /\ brokerUp' = TRUE
  /\ UNCHANGED <<borrows, borrowReqs, borrowResponses, borrowStarted,
                 redisClient, isConnected, brokerMsgs>>
  /\ UNCHANGED <<bookVars, subVars, resolved, notifVars, reqVars>>
  /\ UNCHANGED <<rejected, catalogVars, sseVars, heldSince, received, authVars, committed>>

\* redisClient.on("error"): isConnected = false
RedisOnError ==
  /\ redisClient
  /\ ~brokerUp
  /\ isConnected
  /\ isConnected' = FALSE
  /\ UNCHANGED <<borrows, borrowReqs, borrowResponses, borrowStarted,
                 redisClient, brokerUp, brokerMsgs>>
  /\ UNCHANGED <<bookVars, subVars, resolved, notifVars, reqVars>>
  /\ UNCHANGED <<rejected, catalogVars, sseVars, heldSince, received, authVars, committed>>

\* redisClient.on("connect"): isConnected = true
RedisOnConnect ==
  /\ redisClient
  /\ brokerUp
  /\ ~isConnected
  /\ isConnected' = TRUE
  /\ UNCHANGED <<borrows, borrowReqs, borrowResponses, borrowStarted,
                 redisClient, brokerUp, brokerMsgs>>
  /\ UNCHANGED <<bookVars, subVars, resolved, notifVars, reqVars>>
  /\ UNCHANGED <<rejected, catalogVars, sseVars, heldSince, received, authVars, committed>>

\* after initializeEventPublisher: connected, or redisClient = null when
\* the connection could not be made
InitBorrow ==
  /\ AuthIdle
  /\ borrows = <<>>
  /\ borrowReqs = EmptyBag
  /\ borrowResponses = {}
  /\ borrowStarted = 0
  /\ brokerMsgs = {}
  /\ \/ redisClient = TRUE /\ isConnected = TRUE /\ brokerUp = TRUE
     \/ redisClient = FALSE /\ isConnected = FALSE /\ brokerUp = FALSE
  /\ books = [b \in BookIds |-> NoBook]
  /\ projHandlers = EmptyBag
  /\ projLog = <<>>
  /\ projDelivered = 0
  /\ catSubs = {}
  /\ bookSubs = {}
  /\ resolved = NoCall
  /\ NotifIdle
  /\ CatalogIdle

NextBorrow ==
  \/ \E u \in BorrowUsers, b \in BorrowBookIds, valid, emailOk \in BOOLEAN :
       BorrowRequest(u, b, valid, emailOk)
  \/ \E h \in BagToSet(borrowReqs) : BorrowFindOne(h)
  \/ \E h \in BagToSet(borrowReqs) : BorrowSave(h)
  \/ \E id \in ReturnIds : ReturnRequest(id)
  \/ \E h \in BagToSet(borrowReqs) : ReturnFindById(h)
  \/ \E h \in BagToSet(borrowReqs) : ReturnSave(h)
  \/ \E h \in BagToSet(borrowReqs) : BorrowPublish(h)
  \/ BrokerFail
  \/ BrokerRecover
  \/ RedisOnError
  \/ RedisOnConnect

SpecBorrow == InitBorrow /\ [][NextBorrow]_vars

\* ------------------------------------------------------------------------
\* book-service: the catalog, the projector and the live push registry
\* together
\* ------------------------------------------------------------------------
\* a catalog that is empty or holds one consistent book; the publisher is
\* null when initPublisher could not create it
InitCatalog ==
  /\ AuthIdle
  /\ \E d \in {NoBook} \cup BookDocs :
       books = [b \in BookIds |-> IF b \in CatalogBookIds THEN d ELSE NoBook]
  /\ projHandlers = EmptyBag
  /\ projLog = <<>>
  /\ projDelivered = 0
  /\ catSubs = {}
  /\ bookSubs = {}
  /\ resolved = NoCall
  /\ NotifIdle
  /\ BorrowIdle
  /\ bookReqs = EmptyBag
  /\ bookResponses = {}
  /\ bookStarted = 0
  /\ bookPublisher \in BOOLEAN
  /\ sseClients = {}
  /\ sseConns = 0
  /\ sseFrames = <<>>
  /\ sseClosed = {}
  /\ rejected = {}

NextCatalog ==
  \/ \E op \in BookOps, b \in CatalogBookIds, total \in TotalInputs :
       BookRequest(op, b, total)
  \/ \E h \in BagToSet(bookReqs) : BookFindOne(h)
  \/ \E h \in BagToSet(bookReqs) : BookSave(h)
  \/ \E h \in BagToSet(bookReqs) : BookPublish(h)
  \/ \E k \in ProjKinds, b \in CatalogBookIds : ProjDeliver(k, b)
  \/ \E h \in BagToSet(projHandlers) : ProjLoad(h)
  \/ \E h \in BagToSet(projHandlers) : ProjSave(h)

SpecCatalog == InitCatalog /\ [][NextCatalog]_vars

\* ------------------------------------------------------------------------
\* auth-service: deleteStudent and its UserDeleted publisher
\* ------------------------------------------------------------------------
MaxDeleteRequests == 2
MaxProducerRequests == 4
MaxSystemRequests == 3
AuthUserIds == {"s1"}
AuthRoles == {"student", "admin"}

AuthReq(req, userId, pc) == [req |-> req, userId |-> userId, pc |-> pc]

AuthResponse(h, code) == [req |-> h.req, userId |-> h.userId, code |-> code]

AuthAnswer(h, code) ==
  /\ authResponses' = authResponses \cup {AuthResponse(h, code)}
  /\ authReqs' = authReqs (-) SetToBag({h})

AuthGoto(h, next) ==
  /\ authReqs' = (authReqs (-) SetToBag({h})) (+) SetToBag({next})
  /\ UNCHANGED authResponses

\* a deleteStudent that publishes as soon as the user is found
AwaitsPublishFirst(pc) == "publish"

\* the awaits of deleteStudent in order: User.findById,
\* User.findByIdAndDelete, publishUserDeleted
AwaitsInOrder(pc) == IF pc = "findById" THEN "delete" ELSE "publish"

\* DELETE /students/:id arrives and issues User.findById
DeleteStudentRequest(userId) ==
  /\ authStarted < MaxDeleteRequests
  /\ authStarted' = authStarted + 1
  /\ authReqs' = authReqs (+) SetToBag({
       AuthReq(authStarted + 1, userId, "findById")})
  /\ UNCHANGED <<authUsers, authResponses, authPublisher, committed>>
  /\ UNCHANGED <<rejected, catalogVars, sseVars, heldSince, received, borrowVars>>
  /\ UNCHANGED <<bookVars, subVars, resolved, notifVars, reqVars>>

\* User.findById resolves: 404, 403 for an admin, else the delete is issued
DeleteStudentFindById(h) ==
  /\ BagIn(h, authReqs)
  /\ h.pc = "findById"
  /\ LET user == authUsers[h.userId]
     IN IF ~user.exists THEN AuthAnswer(h, 404)
        ELSE IF user.role = "admin" THEN AuthAnswer(h, 403)
        ELSE AuthGoto(h, [h EXCEPT !.pc = AwaitsInOrder(h.pc)])
  /\ UNCHANGED <<authUsers, authStarted, authPublisher, committed>>
  /\ UNCHANGED <<rejected, catalogVars, sseVars, heldSince, received, borrowVars>>
  /\ UNCHANGED <<bookVars, subVars, resolved, notifVars, reqVars>>

\* User.findByIdAndDelete resolves (also when another request deleted the
\* user in between)
DeleteStudentDelete(h) ==
  /\ BagIn(h, authReqs)
  /\ h.pc = "delete"
  /\ authUsers' = [authUsers EXCEPT ![h.userId] = NoUser]
  /\ committed' = Acknowledged("deleteStudent", h.req)
  /\ AuthGoto(h, [h EXCEPT !.pc = AwaitsInOrder(h.pc)])
  /\ UNCHANGED <<authStarted, authPublisher>>
  /\ UNCHANGED <<rejected, catalogVars, sseVars, heldSince, received, borrowVars>>
  /\ UNCHANGED <<bookVars, subVars, resolved, notifVars, reqVars>>

\* publishUserDeleted: false without a connection, true after
\* redisClient.publish, false when it throws
UserDeletedResult(publisher, up) ==
  IF ~publisher THEN "skipped" ELSE IF up THEN "sent" ELSE "failed"

\* the publish call of deleteStudent, then the answer
DeleteStudentPublish(h) ==
  /\ BagIn(h, authReqs)
  /\ h.pc = "publish"
  /\ brokerMsgs' =
       IF UserDeletedResult(authPublisher, brokerUp) = "sent"
       THEN brokerMsgs \cup {[type |-> "UserDeleted", req |-> h.req,
                              borrowId |-> 0, bookId |-> NoId,
                              userId |-> h.userId,
                              seq |-> Cardinality(brokerMsgs) + 1]}
       ELSE brokerMsgs
  /\ AuthAnswer(h, 200)
  /\ UNCHANGED <<authUsers, authStarted, authPublisher, committed>>
  /\ UNCHANGED <<borrows, borrowReqs, borrowResponses, borrowStarted,
                 redisClient, isConnected, brokerUp>>
  /\ UNCHANGED <<rejected, catalogVars, sseVars, heldSince, received>>
  /\ UNCHANGED <<bookVars, subVars, resolved, notifVars, reqVars>>

\* ------------------------------------------------------------------------
\* The three producers on one broker
\* ------------------------------------------------------------------------
\* one student or one admin account; an empty catalog and no borrow; each
\* publisher connected or not
InitProducers ==
  /\ \E role \in AuthRoles :
       authUsers = [u \in AuthUserIds |-> [exists |-> TRUE, role |-> role]]
  /\ authReqs = EmptyBag
  /\ authResponses = {}
  /\ authStarted = 0
  /\ authPublisher \in BOOLEAN
  /\ committed = {}
  /\ books = [b \in BookIds |-> NoBook]
  /\ projHandlers = EmptyBag
  /\ projLog = <<>>
  /\ projDelivered = 0
  /\ catSubs = {}
  /\ bookSubs = {}
  /\ resolved = NoCall
  /\ NotifIdle
  /\ BorrowIdle
  /\ CatalogIdle

\* the requests the three services have received so far
ProducerBudget ==
  borrowStarted + bookStarted + authStarted < MaxProducerRequests

NextProducers ==
  \/ ProducerBudget /\ BorrowRequest("u1", "b1", TRUE, TRUE)
  \/ \E h \in BagToSet(borrowReqs) : BorrowFindOne(h)
  \/ \E h \in BagToSet(borrowReqs) : BorrowSave(h)
  \/ ProducerBudget /\ ReturnRequest(1)
  \/ \E h \in BagToSet(borrowReqs) : ReturnFindById(h)
  \/ \E h \in BagToSet(borrowReqs) : ReturnSave(h)
  \/ \E h \in BagToSet(borrowReqs) : BorrowPublish(h)
  \/ \E op \in {"addBook", "updateBook"}, total \in {-1, 1} :
       ProducerBudget /\ BookRequest(op, "b1", total)
  \/ \E h \in BagToSet(bookReqs) : BookFindOne(h)
  \/ \E h \in BagToSet(bookReqs) : BookSave(h)
  \/ \E h \in BagToSet(bookReqs) : BookPublish(h)
  \/ \E u \in AuthUserIds : ProducerBudget /\ DeleteStudentRequest(u)
  \/ \E h \in BagToSet(authReqs) : DeleteStudentFindById(h)
  \/ \E h \in BagToSet(authReqs) : DeleteStudentDelete(h)
  \/ \E h \in BagToSet(authReqs) : DeleteStudentPublish(h)

SpecProducers == InitProducers /\ [][NextProducers]_vars

\* ------------------------------------------------------------------------
\* The broker's channels and their subscribers
\* ------------------------------------------------------------------------
\* subscriber.subscribe(...) of the book-service and the channels of the
\* notification-service whose handlers fan out
ChannelsOf(service) ==
  IF service = "book" THEN {"BookBorrowed", "BookReturned"}
  ELSE {"BookAdded", "BookUpdated"}

\* the messages of a service's channels whose callback has not been invoked
Pending(service) ==
  { m \in brokerMsgs :
      /\ m.type \in ChannelsOf(service)
      /\ \A r \in received : r.service # service \/ r.seq # m.seq }

\* the subscriber's connection hands the messages over in publish order
NextMessage(service) ==
  CHOOSE m \in Pending(service) : \A n \in Pending(service) : m.seq <= n.seq

Receipt(service, m, id) == [service |-> service, seq |-> m.seq, id |-> id]

\* the book-service subscriber is handed the next BookBorrowed /
\* BookReturned message
ProjReceive ==
  /\ Pending("book") # {}
  /\ LET m == NextMessage("book")
     IN /\ ProjInvoke(m.type, m.bookId)
        /\ received' = received \cup {Receipt("book", m, projDelivered + 1)}

\* ------------------------------------------------------------------------
\* borrow-service, broker and book-service together
\* ------------------------------------------------------------------------
\* no borrow record yet, and the book missing or with all its copies on
\* the shelf
InitSystem ==
  /\ AuthIdle
  /\ \E d \in {NoBook} \cup { NewBook(t) : t \in 1..MaxCopies } :
       books = [b \in BookIds |-> IF b \in BorrowBookIds THEN d ELSE NoBook]
  /\ projHandlers = EmptyBag
  /\ projLog = <<>>
  /\ projDelivered = 0
  /\ catSubs = {}
  /\ bookSubs = {}
  /\ resolved = NoCall
  /\ NotifIdle
  /\ BorrowIdle
  /\ CatalogIdle

\* the requests the two services have received so far
SystemBudget == borrowStarted + bookStarted < MaxSystemRequests

\* the projector's callbacks run one after the other here
NextSystem ==
  \/ \E u \in BorrowUsers, b \in BorrowBookIds :
       SystemBudget /\ BorrowRequest(u, b, TRUE, TRUE)
  \/ \E h \in BagToSet(borrowReqs) : BorrowFindOne(h)
  \/ \E h \in BagToSet(borrowReqs) : BorrowSave(h)
  \/ \E id \in ReturnIds : SystemBudget /\ ReturnRequest(id)
  \/ \E h \in BagToSet(borrowReqs) : ReturnFindById(h)
  \/ \E h \in BagToSet(borrowReqs) : ReturnSave(h)
  \/ \E h \in BagToSet(borrowReqs) : BorrowPublish(h)
  \/ projHandlers = EmptyBag /\ ProjReceive
  \/ \E h \in BagToSet(projHandlers) : ProjLoad(h)
  \/ \E h \in BagToSet(projHandlers) : ProjSave(h)
  \/ \E b \in BorrowBookIds :
       SystemBudget /\ BookRequest("deleteBook", b, NoUpdate)
  \/ \E h \in BagToSet(bookReqs) : BookFindOne(h)
  \/ \E h \in BagToSet(bookReqs) : BookSave(h)
  \/ \E h \in BagToSet(bookReqs) : BookPublish(h)

SpecSystem == InitSystem /\ [][NextSystem]_vars

\* ------------------------------------------------------------------------
\* End to end: addBook, broker, notification fan-out
\* ------------------------------------------------------------------------
\* req.body.category of the addBook request of each book: b1 is added to
\* category c1, b2 to category c2
BookCategory ==
  [b \in BookIds |-> CategoryNameOf[IF b = "b1" THEN "c1" ELSE "c2"]]

\* the notification-service subscriber is handed the next BookAdded
\* message: processBookAdded builds the event from the parsed data
NotifReceive ==
  /\ Pending("notification") # {}
  /\ LET m == NextMessage("notification")
     IN /\ NotifInvoke(IF m.type = "BookAdded" THEN "BOOK_ADDED"
                       ELSE "BOOK_UPDATED",
                       IF m.type = "BookAdded" THEN BookCategory[m.bookId]
                       ELSE <<>>,
                       m.bookId)
        /\ received' =
             received \cup {Receipt("notification", m, notifDelivered + 1)}
  /\ UNCHANGED heldSince

\* an empty catalog, the subscriptions of one user, publisher and
\* subscriber connected
InitEndToEnd ==
  /\ AuthIdle
  /\ books = [b \in BookIds |-> NoBook]
  /\ projHandlers = EmptyBag
  /\ projLog = <<>>
  /\ projDelivered = 0
  /\ catSubs \in CategoryStores({"u1"}, CategoryIds)
  /\ bookSubs \in BookStores({"u1"}, BookIds)
  /\ resolved = NoCall
  /\ NotifIdle
  /\ BorrowIdle
  /\ CatalogIdle

\* the steps the event loops of the two services take on their own
EndToEndSteps ==
  \/ \E h \in BagToSet(bookReqs) : BookSave(h)
  \/ \E h \in BagToSet(bookReqs) : BookPublish(h)
  \/ NotifReceive
  \/ \E h \in BagToSet(notifHandlers) : NotifFindCategory(h)
  \/ \E h \in BagToSet(notifHandlers) : NotifFindBook(h)
  \/ \E h \in BagToSet(notifHandlers) : NotifInsertMany(h)
  \/ \E h \in BagToSet(notifHandlers), ok \in BOOLEAN : NotifEmail(h, ok)

NextEndToEnd ==
  \/ \E b \in BookIds : BookRequest("addBook", b, 1)
  \/ EndToEndSteps

\* a pending callback is run eventually
SpecEndToEnd ==
  InitEndToEnd /\ [][NextEndToEnd]_vars /\ WF_vars(EndToEndSteps)

\* ------------------------------------------------------------------------
\* notification-service: a fan-out while subscriptions change
\* ------------------------------------------------------------------------
RaceUsers == {"u1"}

\* handleBookAdded is invoked and calls getTargetedSubscribers; the users
\* who hold a subscription at that moment are followed
RaceCall(category, bookId) ==
  /\ notifHandlers = EmptyBag
  /\ NotifInvoke("BOOK_ADDED", category, bookId)
  /\ heldSince' = [on |-> TRUE, category |-> category, bookId |-> bookId,
                   users |-> { u \in Users :
                                 Holds(u, catSubs, bookSubs, category, bookId) }]
  /\ UNCHANGED received

InitRace ==
  /\ AuthIdle
  /\ books = [b \in BookIds |-> NoBook]
  /\ projHandlers = EmptyBag
  /\ projLog = <<>>
  /\ projDelivered = 0
  /\ catSubs \in CategoryStores(RaceUsers, StoreCategoryIds)
  /\ bookSubs \in BookStores(RaceUsers, StoreBookIds)
  /\ resolved = NoCall
  /\ NotifIdle
  /\ CatalogIdle
  /\ BorrowIdle

\* subscribe / unsubscribe requests of the user are processed while the
\* handler waits on its lookups
NextRace ==
  \/ \E c \in StoreCategoryIds, b \in StoreBookIds :
       RaceCall(CategoryNameOf[c], b)
  \/ \E h \in BagToSet(notifHandlers) : NotifFindCategory(h)
  \/ \E h \in BagToSet(notifHandlers) : NotifFindBook(h)
  \/ \E h \in BagToSet(notifHandlers) : NotifInsertMany(h)
  \/ \E h \in BagToSet(notifHandlers), ok \in BOOLEAN : NotifEmail(h, ok)
  \/ \E op \in SubOps, u \in RaceUsers :
       \/ \E c \in StoreCategoryIds :
            SubRequest(MaxSubInFlight, op, "category", u, c, TRUE)
       \/ \E b \in StoreBookIds :
            SubRequest(MaxSubInFlight, op, "book", u, b, TRUE)
  \/ \E r \in BagToSet(subReqs) : SubFindOne(r)
  \/ \E r \in BagToSet(subReqs) : SubSave(r)
  \/ \E r \in BagToSet(subReqs) : SubInsert(r)

SpecRace == InitRace /\ [][NextRace]_vars

\* ------------------------------------------------------------------------
\* book-service: the live push registry with the requests that broadcast
\* ------------------------------------------------------------------------
InitPush ==
  /\ AuthIdle
  /\ \E d \in {NoBook, NewBook(1)} :
       books = [b \in BookIds |-> IF b \in CatalogBookIds THEN d ELSE NoBook]
  /\ projHandlers = EmptyBag
  /\ projLog = <<>>
  /\ projDelivered = 0
  /\ catSubs = {}
  /\ bookSubs = {}
  /\ resolved = NoCall
  /\ NotifIdle
  /\ BorrowIdle
  /\ bookReqs = EmptyBag
  /\ bookResponses = {}
  /\ bookStarted = 0
  /\ bookPublisher \in BOOLEAN
  /\ sseClients = {}
  /\ sseConns = 0
  /\ sseFrames = <<>>
  /\ sseClosed = {}
  /\ rejected = {}

NextPush ==
  \/ \E op \in {"addBook", "updateBook", "deleteBook"}, b \in CatalogBookIds,
        total \in {NoUpdate, 1} : BookRequest(op, b, total)
  \/ \E h \in BagToSet(bookReqs) : BookFindOne(h)
  \/ \E h \in BagToSet(bookReqs) : BookSave(h)
  \/ \E h \in BagToSet(bookReqs) : BookPublish(h)
  \/ SseConnect
  \/ \E c \in 1..MaxStreams : SseClose(c)
  \/ BrokerFail
  \/ BrokerRecover

SpecPush == InitPush /\ [][NextPush]_vars

\* ------------------------------------------------------------------------
\* Failures inside the channel callbacks of the notification-service
\* (processBookAdded, processBookUpdated) and of the book-service
\* (handleBookBorrowed, handleBookReturned)
\* ------------------------------------------------------------------------
FaultPoints == {"parse", "find", "insertMany", "findOne", "save"}

\* callbacks in which only the parsing of the message is guarded
InsideTryParseOnly(service, point) == point = "parse"

\* the statement that throws is inside a try block on the way up to the
\* callback: processBookAdded / processBookUpdated lines 133-154 and 161-181
\* (and getTargetedSubscribers, createBatchNotifications around their
\* queries), handleBookBorrowed / handleBookReturned lines 35-66 and 71-99
InsideTry(service, point) ==
  /\ service \in {"notification", "book"}
  /\ point \in FaultPoints

\* what a throw at a point does to the callback's promise
Rejections(service, id, point) ==
  IF InsideTry(service, point) THEN rejected
  ELSE rejected \cup {<<service, id>>}

FaultBudget == notifDelivered + projDelivered < MaxFaultEvents

\* a message that JSON.parse (or the reading of its fields) rejects is
\* delivered to processBookAdded / processBookUpdated
NotifDropMalformed ==
  /\ FaultBudget
  /\ notifDelivered < MaxNotifEvents
  /\ notifDelivered' = notifDelivered + 1
  /\ rejected' = Rejections("notification", notifDelivered + 1, "parse")
  /\ UNCHANGED <<notifHandlers, notifications, emails, eventLog>>
  /\ UNCHANGED <<catalogVars, sseVars, heldSince, received, authVars, committed, borrowVars, bookVars, subVars,
                 resolved, reqVars>>

\* a find of getTargetedSubscribers throws: its catch returns []
NotifFindFails(h) ==
  /\ BagIn(h, notifHandlers)
  /\ h.pc \in {"findCategory", "findBook"}
  /\ rejected' = Rejections("notification", h.id, "find")
  /\ IF InsideTry("notification", "find")
     THEN AfterResolve(h, <<>>)
     ELSE /\ notifHandlers' = notifHandlers (-) SetToBag({h})
          /\ UNCHANGED eventLog
  /\ UNCHANGED <<notifications, emails, notifDelivered>>
  /\ UNCHANGED <<catalogVars, sseVars, heldSince, received, authVars, committed, borrowVars, bookVars, subVars,
                 resolved, reqVars>>

\* Notification.insertMany throws: createBatchNotifications returns [] and
\* the handler goes on without rows
NotifInsertFails(h) ==
  /\ BagIn(h, notifHandlers)
  /\ h.pc = "insertMany"
  /\ rejected' = Rejections("notification", h.id, "insertMany")
  /\ IF ~InsideTry("notification", "insertMany")
     THEN /\ notifHandlers' = notifHandlers (-) SetToBag({h})
          /\ UNCHANGED eventLog
     ELSE IF h.type = "BOOK_ADDED"
     THEN /\ notifHandlers' = (notifHandlers (-) SetToBag({h})) (+)
               SetToBag({[h EXCEPT !.pc = "email"]})
          /\ UNCHANGED eventLog
     ELSE /\ notifHandlers' = notifHandlers (-) SetToBag({h})
          /\ eventLog' = Append(eventLog, LogEntry(h, Len(h.targets)))
  /\ UNCHANGED <<notifications, emails, notifDelivered>>
  /\ UNCHANGED <<catalogVars, sseVars, heldSince, received, authVars, committed, borrowVars, bookVars, subVars,
                 resolved, reqVars>>

\* a message that JSON.parse rejects is delivered to handleBookBorrowed /
\* handleBookReturned
ProjDropMalformed ==
  /\ FaultBudget
  /\ projDelivered < MaxProjEvents
  /\ projDelivered' = projDelivered + 1
  /\ rejected' = Rejections("book", projDelivered + 1, "parse")
  /\ UNCHANGED <<books, projHandlers, projLog>>
  /\ UNCHANGED <<catalogVars, sseVars, heldSince, received, authVars, committed, borrowVars, subVars, resolved,
                 notifVars, reqVars>>

\* Book.findOne or book.save throws: the catch of the handler logs it
ProjThrows(h) ==
  /\ BagIn(h, projHandlers)
  /\ rejected' = Rejections("book", h.bookId, h.pc)
  /\ projHandlers' = projHandlers (-) SetToBag({h})
  /\ UNCHANGED <<books, projLog, projDelivered>>
  /\ UNCHANGED <<catalogVars, sseVars, heldSince, received, authVars, committed, borrowVars, subVars, resolved,
                 notifVars, reqVars>>

\* one book and one subscriber of each kind; the two services share the
\* budget of deliveries
InitFault ==
  /\ AuthIdle
  /\ \E d \in BookDocs :
       books = [b \in BookIds |-> IF b = "b1" THEN d ELSE NoBook]
  /\ projHandlers = EmptyBag
  /\ projLog = <<>>
  /\ projDelivered = 0
  /\ catSubs = {CategoryRow(2, "u1", "c1", TRUE, 0)}
  /\ bookSubs = {BookRow(3, "u2", "b1", TRUE, 0)}
  /\ resolved = NoCall
  /\ NotifIdle
  /\ CatalogIdle
  /\ BorrowIdle

NextFault ==
  \/ /\ FaultBudget
     /\ \E c \in EventCategories : NotifDeliver("BOOK_ADDED", c, "b1")
  \/ /\ FaultBudget
     /\ NotifDeliver("BOOK_UPDATED", <<>>, "b1")
  \/ NotifDropMalformed
  \/ \E h \in BagToSet(notifHandlers) : NotifFindCategory(h)
  \/ \E h \in BagToSet(notifHandlers) : NotifFindBook(h)
  \/ \E h \in BagToSet(notifHandlers) : NotifFindFails(h)
  \/ \E h \in BagToSet(notifHandlers) : NotifInsertMany(h)
  \/ \E h \in BagToSet(notifHandlers) : NotifInsertFails(h)
  \/ \E h \in BagToSet(notifHandlers), ok \in BOOLEAN : NotifEmail(h, ok)
  \/ /\ FaultBudget
     /\ \E k \in ProjKinds : ProjDeliver(k, "b1")
  \/ ProjDropMalformed
  \/ \E h \in BagToSet(projHandlers) : ProjLoad(h)
  \/ \E h \in BagToSet(projHandlers) : ProjSave(h)
  \/ \E h \in BagToSet(projHandlers) : ProjThrows(h)

SpecFault == InitFault /\ [][NextFault]_vars

\* ------------------------------------------------------------------------
\* Availability projector: properties
\* ------------------------------------------------------------------------
SavingOn(b) == { h \in BagToSet(projHandlers) : h.pc = "save" /\ h.bookId = b }

\* C1: while totalCopies is not changed, every existing book keeps
\* 0 <= availableCopies <= totalCopies in every reachable state of the
\* projector, handlers interleaving between findOne and save included.
C1_AvailabilityBounds ==
  \A b \in BookIds :
    books[b].exists =>
      /\ 0 <= books[b].availableCopies
      /\ books[b].availableCopies <= books[b].totalCopies

\* two handlers of different kinds are between findOne and save on one
\* book, after an earlier handler has already persisted
C1_Witness ==
  \E b \in BookIds :
    /\ \E h1, h2 \in SavingOn(b) : h1.kind # h2.kind
    /\ Len(projLog) >= 1

\* C2: the save of a BookBorrowed handler persists the value it loaded
\* minus one whatever the stored value has become meanwhile (no lock, no
\* compare-and-swap, no version check), so two handlers that loaded the
\* same N both persist N-1.
C2_LostUpdate ==
  [][\A h \in BagToSet(projHandlers) :
       (h.kind = "BookBorrowed" /\ ProjSave(h)) =>
         /\ h.loaded.availableCopies >= 1
         /\ books'[h.bookId].availableCopies = h.loaded.availableCopies - 1]_vars

\* two BookBorrowed handlers of one book have both persisted, one after
\* the other, the same value: two borrows lowered the counter by one
C2_Witness ==
  \E i \in 1..(Len(projLog) - 1) :
    /\ projLog[i][1] = "BookBorrowed"
    /\ projLog[i + 1] = projLog[i]
    /\ i + 1 = Len(projLog)
    /\ books[projLog[i][2]].availableCopies = projLog[i][3]
    /\ projHandlers = EmptyBag

\* ------------------------------------------------------------------------
\* Targeting resolver: properties
\* ------------------------------------------------------------------------
ResultUsers(result) == { result[i].userId : i \in 1..Len(result) }

EntriesOf(result, u) == { i \in 1..Len(result) : result[i].userId = u }

ActiveCategoryNamed(u, name) ==
  \E r \in catSubs : r.userId = u /\ r.isActive /\ r.categoryName = name

ActiveBook(u, b) ==
  \E r \in bookSubs : r.userId = u /\ r.isActive /\ r.bookId = b

\* C3: getTargetedSubscribers returns at most one entry per userId; a user
\* with an active subscription to the category named C and to book B gets
\* exactly one entry, of type 'both', from resolving (C, B), and exactly
\* one entry, of type 'category', from resolving (C, B') for a book B' the
\* user is not subscribed to.
C3_Dedup ==
  resolved.called =>
    LET res == resolved.result
        q == resolved.categoryName
        b == resolved.bookId
    IN /\ \A u \in Users : Cardinality(EntriesOf(res, u)) <= 1
       /\ \A u \in Users :
            (ActiveCategoryNamed(u, q) /\ b # NoId) =>
              \E i \in 1..Len(res) :
                /\ res[i].userId = u
                /\ res[i].subscriptionType =
                     IF ActiveBook(u, b) THEN "both" ELSE "category"

\* C10: the userIds getTargetedSubscribers returns are exactly the users
\* with an active category subscription whose categoryName equals the given
\* name up to letter case, together with, when a bookId is given, the users
\* with an active subscription to that book; without a bookId every entry
\* has subscriptionType 'category'.
C10_ResolvedUsers ==
  resolved.called =>
    LET res == resolved.result
        q == resolved.categoryName
        b == resolved.bookId
        categoryUsers == { r.userId : r \in { x \in catSubs :
                             /\ x.isActive
                             /\ LowerName(x.categoryName) = LowerName(q) } }
        bookUsers == IF b = NoId THEN {}
                     ELSE { r.userId : r \in { x \in bookSubs :
                              x.isActive /\ x.bookId = b } }
    IN /\ ResultUsers(res) = categoryUsers \cup bookUsers
       /\ b = NoId =>
            \A i \in 1..Len(res) : res[i].subscriptionType = "category"

\* ------------------------------------------------------------------------
\* Notification fan-out: properties
\* ------------------------------------------------------------------------
RECURSIVE SumCopies(_, _)
SumCopies(bag, elems) ==
  IF elems = {} THEN 0
  ELSE LET e == CHOOSE x \in elems : TRUE
       IN CopiesIn(e, bag) + SumCopies(bag, elems \ {e})

\* number of Notification rows created for one event (and one user)
RowsOfEvent(e) ==
  SumCopies(notifications, { n \in BagToSet(notifications) : n.event = e })

RowsOfEventUser(e, u) ==
  SumCopies(notifications,
            { n \in BagToSet(notifications) : n.event = e /\ n.userId = u })

EmailsOfEventUser(e, u) ==
  SumCopies(emails, { m \in BagToSet(emails) : m.event = e /\ m.userId = u })

EmailsOfEvent(e) ==
  SumCopies(emails, { m \in BagToSet(emails) : m.event = e })

\* C15: while a BookAdded event with N targets is in its email loop, the
\* targets already passed have exactly one attempt each, failed or not, the
\* others none, and the N rows stay; once the event is logged every target
\* has exactly one attempt and exactly one row.
C15_EmailIsolation ==
  /\ \A h \in BagToSet(notifHandlers) :
       h.pc = "email" =>
         /\ RowsOfEvent(h.id) = Len(h.subscribers)
         /\ EmailsOfEvent(h.id) = h.sent
         /\ \A i \in 1..Len(h.subscribers) :
              EmailsOfEventUser(h.id, h.subscribers[i].userId)
                = (IF i <= h.sent THEN 1 ELSE 0)
  /\ \A i \in 1..Len(eventLog) :
       LET e == eventLog[i]
       IN e.eventType = "BOOK_ADDED" =>
            /\ EmailsOfEvent(e.event) = e.subscribersNotified
            /\ RowsOfEvent(e.event) = e.subscribersNotified
            /\ \A u \in Users :
                 /\ EmailsOfEventUser(e.event, u) = RowsOfEventUser(e.event, u)
                 /\ EmailsOfEventUser(e.event, u) <= 1

\* a logged BookAdded event with two targets: the send to one of them
\* failed, the other was attempted all the same, and both rows exist
C15_Witness ==
  \E i \in 1..Len(eventLog) :
    LET e == eventLog[i]
    IN /\ e.eventType = "BOOK_ADDED"
       /\ e.subscribersNotified = 2
       /\ e.emailsSent <= 1
       /\ \E m \in BagToSet(emails) : m.event = e.event /\ ~m.ok
       /\ \A u \in Users : EmailsOfEventUser(e.event, u) = 1
       /\ RowsOfEvent(e.event) = 2

SubKinds == {"category", "book"}

StoreTargets(kind) ==
  IF kind = "category" THEN StoreCategoryIds ELSE StoreBookIds

\* the responses that changed or confirmed a row of (kind, userId, target)
Succeeded(kind, userId, target) ==
  SelectSeq(responses,
            LAMBDA e : /\ e.kind = kind /\ e.userId = userId
                       /\ e.target = target
                       /\ e.result \in {"created", "reactivated",
                                         "unsubscribed"})

\* the last three successful operations on the pair are subscribe,
\* unsubscribe, subscribe
SubUnsubSub(hist) ==
  /\ Len(hist) >= 3
  /\ hist[Len(hist) - 2].op = "subscribe"
  /\ hist[Len(hist) - 1].op = "unsubscribe"
  /\ hist[Len(hist)].op = "subscribe"

\* C5: after subscribe, unsubscribe, subscribe by one user on one category
\* (or book) the pair has exactly one row, active, whose subscribedAt is
\* the time of the second subscribe.
C5_Resubscribe ==
  \A kind \in SubKinds, u \in StoreUsers :
    \A t \in StoreTargets(kind) :
      LET hist == Succeeded(kind, u, t)
      IN SubUnsubSub(hist) =>
           /\ Cardinality(PairRows(kind, u, t)) = 1
           /\ \A r \in PairRows(kind, u, t) :
                /\ r.isActive
                /\ r.subscribedAt = hist[Len(hist)].at

\* the second subscribe came at a later time than the first
C5_Witness ==
  \E kind \in SubKinds, u \in StoreUsers :
    \E t \in StoreTargets(kind) :
      LET hist == Succeeded(kind, u, t)
      IN /\ SubUnsubSub(hist)
         /\ hist[Len(hist) - 2].at < hist[Len(hist)].at

\* C7: under any interleaving of subscribe and unsubscribe requests each
\* collection holds at most one row per (userId, categoryId) and per
\* (userId, bookId).
C7_UniqueRows ==
  \A kind \in SubKinds, u \in StoreUsers :
    \A t \in StoreTargets(kind) : Cardinality(PairRows(kind, u, t)) <= 1

\* two first-time subscribes of one user to one target ran concurrently:
\* one created the row, the other was rejected by the index
C7_Witness ==
  \E i, j \in 1..Len(responses) :
    /\ responses[i].result = "created"
    /\ responses[j].result = "error"
    /\ responses[i].kind = responses[j].kind
    /\ responses[i].userId = responses[j].userId
    /\ responses[i].target = responses[j].target
    /\ Cardinality(PairRows(responses[i].kind, responses[i].userId,
                           responses[i].target)) = 1

\* the step answers a request (valid input) of the given operation on the
\* given pair with the given result
Answers(op, kind, userId, target, result) ==
  /\ Len(responses') = Len(responses) + 1
  /\ responses'[Len(responses')].op = op
  /\ responses'[Len(responses')].kind = kind
  /\ responses'[Len(responses')].userId = userId
  /\ responses'[Len(responses')].target = target
  /\ responses'[Len(responses')].result = result
  /\ responses'[Len(responses')].status = StatusCode(result)

Results == {"created", "reactivated", "unsubscribed", "notfound", "conflict",
            "error"}

OtherRowsUnchanged(kind, userId, target) ==
  /\ { r \in Collection(kind) :
         ~(r.userId = userId /\ TargetOf(kind, r) = target) }
     = { r \in Collection(kind)' :
         ~(r.userId = userId /\ TargetOf(kind, r) = target) }
  /\ IF kind = "category" THEN bookSubs' = bookSubs ELSE catSubs' = catSubs

RowIds(rows) == { r.id : r \in rows }

\* C9: an unsubscribe with valid input sets isActive = false on the row of
\* the pair and on nothing else (also when the row is already inactive),
\* and is answered 404 with the store unchanged when the pair has no row;
\* no step of the store removes a row.
C9_SoftDelete ==
  [][/\ RowIds(catSubs) \subseteq RowIds(catSubs')
     /\ RowIds(bookSubs) \subseteq RowIds(bookSubs')
     /\ \A kind \in SubKinds, u \in StoreUsers, res \in Results :
          \A t \in StoreTargets(kind) :
            Answers("unsubscribe", kind, u, t, res) =>
              LET rows == PairRows(kind, u, t)
                  rowsAfter == PairRows(kind, u, t)'
              IN /\ OtherRowsUnchanged(kind, u, t)
                 /\ IF rows = {}
                    THEN /\ res = "notfound" /\ StatusCode(res) = 404
                         /\ rowsAfter = {}
                    ELSE /\ res = "unsubscribed" /\ StatusCode(res) = 200
                         /\ rowsAfter = { [r EXCEPT !.isActive = FALSE] :
                                            r \in rows }]_vars

\* an active row was soft-deleted, an already inactive row was
\* unsubscribed again, and an unsubscribe was answered 404, while another
\* row stayed active
C9_Witness ==
  /\ \E i, j \in 1..Len(responses) :
       /\ i < j
       /\ responses[i].result = "unsubscribed"
       /\ responses[j].result = "unsubscribed"
       /\ responses[i].kind = responses[j].kind
       /\ responses[i].userId = responses[j].userId
  /\ \E r \in catSubs \cup bookSubs : ~r.isActive

\* ------------------------------------------------------------------------
\* borrow-service: properties
\* ------------------------------------------------------------------------
Persisted(r) ==
  /\ r.borrowId \in 1..Len(borrows)
  /\ borrows[r.borrowId].userId = r.userId
  /\ borrows[r.borrowId].bookId = r.bookId
  /\ r.op = "return" => borrows[r.borrowId].status = "RETURNED"

ObservedFor(r) == { m \in brokerMsgs : m.req = r.req }

\* C6: a borrowBook or returnBook whose publish call ran while the broker
\* was unreachable has its borrow-record change in the collection, is
\* answered 201 / 200, its publish call is never waiting for the broker,
\* and the broker holds no BookBorrowed / BookReturned message of that
\* request.
C6_BrokerUnreachable ==
  /\ \A r \in borrowResponses :
       (r.publishStep /\ ~r.brokerAtPublish) =>
         /\ r.code = (IF r.op = "borrow" THEN 201 ELSE 200)
         /\ Persisted(r)
         /\ ObservedFor(r) = {}
  /\ \A h \in BagToSet(borrowReqs) :
       h.pc = "publish" => Persisted(h) /\ ENABLED BorrowPublish(h)

\* a borrowBook answered 201 and the returnBook of the same record answered
\* 200, the broker unreachable at both publish calls
C6_Witness ==
  \E r, t \in borrowResponses :
    /\ r.op = "borrow" /\ r.publishStep /\ ~r.brokerAtPublish
    /\ t.op = "return" /\ t.publishStep /\ ~t.brokerAtPublish
    /\ r.borrowId = t.borrowId
    /\ r.code = 201
    /\ t.code = 200
    /\ brokerMsgs = {}

\* ------------------------------------------------------------------------
\* book-service: properties of the catalog and the projector together
\* ------------------------------------------------------------------------
\* the step ends the projector handler h
ProjEnds(h) == projHandlers' = projHandlers (-) SetToBag({h})

\* no write reached the book between the findOne and the save of h
Isolated(h) == books[h.bookId] = h.loaded

Min(a, b) == IF a < b THEN a ELSE b

\* C11: a BookBorrowed handler ends after findOne, the books unchanged,
\* exactly when the book does not exist or has availableCopies 0; one that
\* saves with no other write in between leaves availableCopies one lower
\* and the status 'unavailable' exactly when the result is 0.
C11_BorrowedInIsolation ==
  [][ /\ \A h \in BagToSet(projHandlers) :
           (h.kind = "BookBorrowed" /\ ProjEnds(h)) =>
             IF h.pc = "findOne"
             THEN /\ ~books[h.bookId].exists
                     \/ books[h.bookId].availableCopies = 0
                  /\ books' = books
             ELSE Isolated(h) =>
                    /\ books'[h.bookId].availableCopies
                         = books[h.bookId].availableCopies - 1
                    /\ books'[h.bookId].status = "unavailable"
                         <=> books'[h.bookId].availableCopies = 0
      /\ \A h \in BagToSet(projHandlers') :
           (h.kind = "BookBorrowed" /\ h.pc = "save") =>
             h.loaded.availableCopies > 0 ]_vars

\* C12: a BookReturned handler ends after findOne, the books unchanged,
\* exactly when the book does not exist; one that saves with no other write
\* in between leaves availableCopies = min(availableCopies + 1, totalCopies)
\* and the status 'available' whenever that is > 0.
C12_ReturnedInIsolation ==
  [][ \A h \in BagToSet(projHandlers) :
        (h.kind = "BookReturned" /\ ProjEnds(h)) =>
          IF h.pc = "findOne"
          THEN ~books[h.bookId].exists /\ books' = books
          ELSE Isolated(h) =>
                 /\ books'[h.bookId].availableCopies
                      = Min(books[h.bookId].availableCopies + 1,
                            books[h.bookId].totalCopies)
                 /\ books'[h.bookId].availableCopies > 0
                      => books'[h.bookId].status = "available" ]_vars

\* C13: every existing book has status 'available' exactly when its
\* availableCopies is above 0, whatever the interleaving of the projector
\* handlers and of addBook, updateBook, decrease and increase.
C13_StatusDerived ==
  \A b \in BookIds :
    books[b].exists =>
      (books[b].status = "available" <=> books[b].availableCopies > 0)

\* C14: every existing book keeps 0 <= availableCopies <= totalCopies, for
\* every write path of the catalog together with the projector.
C14_CatalogBounds ==
  \A b \in BookIds :
    books[b].exists =>
      /\ 0 <= books[b].availableCopies
      /\ books[b].availableCopies <= books[b].totalCopies

\* ------------------------------------------------------------------------
\* Failures inside the channel callbacks: properties
\* ------------------------------------------------------------------------
\* callback runs and audit entries of one delivery to the notification-service
RunsOf(handlers, log, id) ==
  Cardinality({ h \in BagToSet(handlers) : h.id = id })
  + Cardinality({ i \in 1..Len(log) : log[i].event = id })

\* C17: whatever throws while a channel callback of the notification-service
\* or of the book-service handles a message, no callback's promise rejects
\* and nothing on the producers' side changes; a callback run begins only
\* with a delivery, one per delivery, and a delivery whose run has ended is
\* never run again.
C17_FailureContained ==
  [][ /\ rejected' = {}
      /\ UNCHANGED producerVars
      /\ BagCardinality(notifHandlers') > BagCardinality(notifHandlers)
           => /\ notifDelivered' = notifDelivered + 1
              /\ BagCardinality(notifHandlers')
                   = BagCardinality(notifHandlers) + 1
      /\ BagCardinality(projHandlers') > BagCardinality(projHandlers)
           => /\ projDelivered' = projDelivered + 1
              /\ BagCardinality(projHandlers')
                   = BagCardinality(projHandlers) + 1
      /\ \A id \in 1..notifDelivered' :
           /\ RunsOf(notifHandlers', eventLog', id) <= 1
           /\ (id <= notifDelivered
                 /\ \E h \in BagToSet(notifHandlers') : h.id = id)
                => \E h \in BagToSet(notifHandlers) : h.id = id ]_vars

\* a BookAdded event whose batch insert failed has been logged without a
\* row, and a BookBorrowed message for a book with copies left has been
\* dropped without a write
C17_Witness ==
  /\ \E i \in 1..Len(eventLog) :
       /\ eventLog[i].eventType = "BOOK_ADDED"
       /\ eventLog[i].subscribersNotified >= 1
       /\ RowsOfEvent(eventLog[i].event) = 0
  /\ projDelivered = 1
  /\ projHandlers = EmptyBag
  /\ projLog = <<>>
  /\ books["b1"].availableCopies > 0
  /\ rejected = {}

\* ------------------------------------------------------------------------
\* Live push registry: properties
\* ------------------------------------------------------------------------
\* C18: the registry holds exactly the connections that were registered and
\* whose close event has not been processed; a step that broadcasts a frame
\* appends it once to every connection of the registry and to no other; no
\* frame is written to a connection after its close has been processed,
\* and no connection holds a notification frame twice.
C18_PushRegistry ==
  [][ /\ sseClients' = (1..sseConns') \ sseClosed'
      /\ \A c \in sseClosed : /\ c \in sseClosed'
                             /\ sseFrames'[c] = sseFrames[c]
      /\ \A m \in brokerMsgs' \ brokerMsgs :
           \A c \in 1..sseConns :
             sseFrames'[c] =
               IF c \in sseClients
               THEN Append(sseFrames[c], [type |-> m.type, req |-> m.req])
               ELSE sseFrames[c]
      /\ brokerMsgs' = brokerMsgs =>
           \A c \in 1..sseConns : sseFrames'[c] = sseFrames[c]
      /\ \A c \in 1..sseConns' :
           \A i \in 1..Len(sseFrames'[c]) :
             Cardinality({ j \in 1..Len(sseFrames'[c]) :
                             sseFrames'[c][j] = sseFrames'[c][i] }) = 1 ]_vars

\* two connections were registered, the first was closed before a
\* notification was broadcast: the open one holds the frame, the closed
\* one only its "connected" frame
C18_Witness ==
  /\ sseConns = 2
  /\ sseClosed = {1}
  /\ sseClients = {2}
  /\ Len(sseFrames[1]) = 1
  /\ Len(sseFrames[2]) = 2
  /\ sseFrames[2][2].type \in {"BookAdded", "BookUpdated"}

\* ------------------------------------------------------------------------
\* Commit-then-publish: properties
\* ------------------------------------------------------------------------
\* the handler that publishes an event type
OpOf(type) ==
  CASE type = "BookBorrowed" -> "borrow"
    [] type = "BookReturned" -> "return"
    [] type = "BookAdded" -> "addBook"
    [] type = "BookUpdated" -> "updateBook"
    [] type = "BookDeleted" -> "deleteBook"
    [] type = "UserDeleted" -> "deleteStudent"

\* C19: every event the broker has received was published after the store
\* acknowledged the local write of the same request, and the write is
\* there: the borrow record exists (and is RETURNED for a BookReturned), the
\* book exists, the user is gone.
C19_CommitThenPublish ==
  \A m \in brokerMsgs :
    /\ [op |-> OpOf(m.type), req |-> m.req] \in committed
    /\ m.type \in {"BookBorrowed", "BookReturned"} =>
         /\ m.borrowId \in 1..Len(borrows)
         /\ borrows[m.borrowId].bookId = m.bookId
    /\ m.type = "BookReturned" => borrows[m.borrowId].status = "RETURNED"
    /\ m.type \in {"BookAdded", "BookUpdated"} => books[m.bookId].exists
    /\ m.type = "UserDeleted" => ~authUsers[m.userId].exists

\* the broker holds events of all three producers: a borrow and its
\* return, a new book, a deleted student
C19_Witness ==
  \A type \in {"BookBorrowed", "BookReturned", "BookAdded", "UserDeleted"} :
    \E m \in brokerMsgs : m.type = type

\* ------------------------------------------------------------------------
\* Audit log: properties
\* ------------------------------------------------------------------------
\* the audit entries of one delivered event
EntriesOfEvent(log, e) == { i \in 1..Len(log) : log[i].event = e }

\* C20: the audit log only grows at its end, and when a handler ends the
\* log holds exactly one entry of the event it was delivered.
C20_AuditLog ==
  [][ /\ Len(eventLog') >= Len(eventLog)
      /\ SubSeq(eventLog', 1, Len(eventLog)) = eventLog
      /\ \A h \in BagToSet(notifHandlers) :
           (\A g \in BagToSet(notifHandlers') : g.id # h.id) =>
             Cardinality(EntriesOfEvent(eventLog', h.id)) = 1 ]_vars

\* ------------------------------------------------------------------------
\* borrow-service: properties of the borrow records
\* ------------------------------------------------------------------------
\* the records in status BORROWED of one user and one book
ActiveBorrows(userId, bookId) ==
  { i \in 1..Len(borrows) : /\ borrows[i].userId = userId
                            /\ borrows[i].bookId = bookId
                            /\ borrows[i].status = "BORROWED" }

\* C24: at most one borrow record in status BORROWED per (userId, bookId),
\* whatever the interleaving of the borrowBook requests.
C24_OneActiveBorrow ==
  \A u \in BorrowUsers, b \in BorrowBookIds :
    Cardinality(ActiveBorrows(u, b)) <= 1

\* the BookReturned events published for one borrow record
ReturnedEvents(msgs, borrowId) ==
  { m \in msgs : m.type = "BookReturned" /\ m.borrowId = borrowId }

\* C25: a RETURNED record stays RETURNED, and at most one BookReturned
\* event is published per borrow record, also when return requests of the
\* same borrowId interleave.
C25_ReturnOnce ==
  [][ /\ \A i \in 1..Len(borrows) :
           borrows[i].status = "RETURNED" => borrows'[i].status = "RETURNED"
      /\ \A i \in 1..Len(borrows') :
           Cardinality(ReturnedEvents(brokerMsgs', i)) <= 1 ]_vars

\* ------------------------------------------------------------------------
\* updateBook: properties
\* ------------------------------------------------------------------------
\* C27: an updateBook whose totalCopies is greater than the book's current
\* totalCopies, saved with no other write in between, raises
\* availableCopies by the difference and recomputes status from it.
C27_UpdateGrows ==
  [][ \A h \in BagToSet(bookReqs) :
        ( /\ h.op = "updateBook"
          /\ h.pc = "save"
          /\ books[h.bookId] = h.loaded
          /\ h.total # NoUpdate
          /\ h.total > h.loaded.totalCopies
          /\ ~BagIn(h, bookReqs')
          /\ books' # books )
        => /\ books'[h.bookId].totalCopies = h.total
           /\ books'[h.bookId].availableCopies =
                h.loaded.availableCopies + (h.total - h.loaded.totalCopies)
           /\ books'[h.bookId].status =
                StatusOf(books'[h.bookId].availableCopies) ]_vars

\* ------------------------------------------------------------------------
\* BookUpdated fan-out: properties
\* ------------------------------------------------------------------------
\* the events whose handler has ended
EndedEvents ==
  { e \in 1..notifDelivered : \A h \in BagToSet(notifHandlers) : h.id # e }

PushedFrames(frames, c) ==
  { frames[c][i] : i \in { j \in 1..Len(frames[c]) :
                             frames[c][j].type # "connected" } }

\* C28: every notification frame on a connection is the event of a message
\* the broker received; when addBook, updateBook or deleteBook leaves its
\* publish call the request is answered with success, and either the
\* publisher was set and the broker reachable and the event was published,
\* or nothing was published and no frame was written.
C28_PushAfterPublish ==
  [][ /\ \A c \in 1..sseConns' :
           \A f \in PushedFrames(sseFrames', c) :
             \E m \in brokerMsgs' : m.type = f.type /\ m.req = f.req
      /\ \A h \in BagToSet(bookReqs) :
           (h.pc = "publish" /\ ~BagIn(h, bookReqs')) =>
             /\ \E r \in bookResponses' \ bookResponses :
                  r.req = h.req /\ r.code \in {200, 201}
             /\ IF bookPublisher /\ brokerUp
                THEN \E m \in brokerMsgs' \ brokerMsgs :
                       m.req = h.req /\ OpOf(m.type) = h.op
                ELSE /\ brokerMsgs' = brokerMsgs
                     /\ sseFrames' = sseFrames ]_vars

\* with a connection open, one request was published and pushed, and a
\* deleteBook was answered with success although its event was neither
\* published nor pushed
C28_Witness ==
  /\ \E c \in sseClients, m \in brokerMsgs :
       [type |-> m.type, req |-> m.req] \in PushedFrames(sseFrames, c)
  /\ \E c \in sseClients, r \in bookResponses :
       /\ r.op = "deleteBook"
       /\ r.code = 200
       /\ \A m \in brokerMsgs : m.req # r.req
       /\ \A f \in PushedFrames(sseFrames, c) : f.req # r.req

\* ------------------------------------------------------------------------
\* Borrow records against the catalog: properties
\* ------------------------------------------------------------------------
\* the records in status BORROWED of one book
BorrowedOfBook(bookId) ==
  { i \in 1..Len(borrows) : /\ borrows[i].bookId = bookId
                            /\ borrows[i].status = "BORROWED" }

\* C22: when a borrow record is created, its book exists and has an
\* available copy.
C22_BorrowValidated ==
  [][ Len(borrows') > Len(borrows) =>
        LET b == borrows'[Len(borrows')].bookId
        IN books[b].exists /\ books[b].availableCopies > 0 ]_vars

\* C26: a book is removed from the catalog only when no borrow record of
\* it is in status BORROWED.
C26_NoDeleteWhileBorrowed ==
  [][ \A b \in BookIds :
        (books[b].exists /\ ~books'[b].exists) => BorrowedOfBook(b) = {} ]_vars

\* no request in flight, every published event handled
Quiescent ==
  /\ borrowReqs = EmptyBag
  /\ bookReqs = EmptyBag
  /\ projHandlers = EmptyBag
  /\ Pending("book") = {}

\* C29: in a quiescent state every book has availableCopies = totalCopies
\* minus the number of its borrow records in status BORROWED.
C29_Conservation ==
  Quiescent =>
    \A b \in BookIds :
      books[b].exists =>
        books[b].availableCopies =
          books[b].totalCopies - Cardinality(BorrowedOfBook(b))

\* ------------------------------------------------------------------------
\* End to end: properties
\* ------------------------------------------------------------------------
\* addBook request r of book b was answered 201 and its event published
AddedAndPublished(r, b) ==
  /\ \E a \in bookResponses : a.req = r /\ a.op = "addBook" /\ a.code = 201
  /\ \E m \in brokerMsgs : m.type = "BookAdded" /\ m.req = r /\ m.bookId = b

\* the handler of the event of request r has ended and left exactly one
\* BOOK_ADDED row for user u
OneRowFor(r, u) ==
  \E m \in brokerMsgs, d \in received :
    /\ m.type = "BookAdded" /\ m.req = r
    /\ d.service = "notification" /\ d.seq = m.seq
    /\ d.id \in EndedEvents
    /\ RowsOfEventUser(d.id, u) = 1
    /\ \A n \in BagToSet(notifications) :
         n.event = d.id => n.type = "BOOK_ADDED"

\* C21: a successful, published addBook of a book in a category user u
\* holds an active subscription to is eventually followed, for good, by
\* exactly one BOOK_ADDED row for u.
C21_EndToEnd ==
  \A u \in Users, b \in BookIds, r \in 1..MaxBookRequests :
    (AddedAndPublished(r, b) /\ ActiveCategoryNamed(u, BookCategory[b]))
      ~> []OneRowFor(r, u)

\* ------------------------------------------------------------------------
\* Fan-out while subscriptions change: properties
\* ------------------------------------------------------------------------
\* what getTargetedSubscribers returned to handler h in this step: the
\* handler goes on with it, or ends at once on an empty result
ReturnedTo(h) ==
  IF \E g \in BagToSet(notifHandlers') : g.id = h.id
  THEN (CHOOSE g \in BagToSet(notifHandlers') : g.id = h.id).subscribers
  ELSE <<>>

\* C30: when the book lookup of a getTargetedSubscribers(C, B) call
\* resolves, every user who has held an active subscription to C or to B
\* at every moment since the call began is in the call's output.
C30_HeldUsersResolved ==
  [][ \A h \in BagToSet(notifHandlers) :
        ( /\ h.pc = "findBook"
          /\ heldSince.on
          /\ \A g \in BagToSet(notifHandlers') : g.id = h.id => g.pc # "findBook" )
        => \A u \in heldSince.users : u \in ResultUsers(ReturnedTo(h)) ]_vars

====
